---- MODULE Spec2Model ----
(***************************************************************************)
(* Model of the serial-over-TCP toolkit (xecus/serial-over-tcp).           *)
(*                                                                         *)
(* Part I   SerialTCPClient (src/serial_tcp_client.py): the main thread    *)
(*          (start, stop), the two relay threads tcp_to_virtual_thread and *)
(*          virtual_to_tcp_thread, and the reconnect sequence              *)
(*          _handle_connection_loss / _do_reconnection / connect_to_server *)
(*          / _verify_virtual_device / _restart_data_threads.              *)
(* Part II  the backoff delay of _do_reconnection as a pure function.      *)
(* Part III SerialToNetworkBridge (src/serial_tcp_server.py): accept       *)
(*          thread, per-client handler threads, stop.                      *)
(*                                                                         *)
(* Every Python thread is a process with a program counter; one action is  *)
(* one step between two points at which the thread reads or writes shared  *)
(* attributes.  Outcomes of the operating system (select, recv, sendall,   *)
(* connect, os.read, os.write, timeouts) are nondeterministic choices.     *)
(***************************************************************************)
EXTENDS Integers, FiniteSets, Sequences, TLC

(***************************************************************************)
(* Bounds of the model.                                                    *)
(***************************************************************************)
\* largest value of the attribute max_reconnect_attempts that is explored
MaxAttempts == 2
\* how many times _restart_data_threads may create a fresh pair of threads
MaxRestarts == 1

\* thread ids: 1, 2 are started by start(); each restart creates the next pair
\* how many times in a row the main thread calls stop()
MaxStopCalls == 2

\* how many teardown calls (close, stop, cleanup) one pseudo-device receives
MaxTeardowns == 2

\* most segments of a device path given to _validate_device_path
MaxSegments == 3

\* how many chunks received from the server are followed to the device
MaxChunks == 2

Threads == 1..(2 + 2 * MaxRestarts)
\* odd ids run tcp_to_virtual_thread, even ids run virtual_to_tcp_thread
Kind(t) == IF t % 2 = 1 THEN "tcp" ELSE "virt"

VARIABLES
  main_pc,                  \* position of the main thread (start / idle / stop)
  running,                  \* SerialTCPClient.running
  shutdown_event,           \* SerialTCPClient.shutdown_event (is_set)
  tcp_socket,               \* SerialTCPClient.tcp_socket: "None" or the state of the socket object
  reconnect_attempts,       \* SerialTCPClient.reconnect_attempts
  max_reconnect_attempts,   \* SerialTCPClient.max_reconnect_attempts
  reconnection_in_progress, \* SerialTCPClient.reconnection_in_progress
  threads_lock,             \* holder of SerialTCPClient.threads_lock: 0 free, -1 main, else a thread id
  tcp_thread,               \* SerialTCPClient.tcp_thread: 0 is None, else a thread id
  virtual_thread,           \* SerialTCPClient.virtual_thread
  virtual_device,           \* SerialTCPClient.virtual_device is not None
  master_fd,                \* VirtualSerialDevice.master_fd: "None", "open", "closed"
  pc,                       \* pc[t]: position of relay thread t
  ret,                      \* ret[t]: what follows the return of _handle_connection_loss (continue / break)
  exc,                      \* exc[t]: an exception is propagating out of _restart_data_threads
  server_up,                \* environment: FALSE once the remote server is gone for good
  connect_calls             \* history: connect_to_server calls of reconnect sequences since the last success

\* Part I: further callers of SerialTCPClient.stop()
VARIABLES
  stops_done,               \* history: how many stop() calls of the main thread have returned
  outer_pc,                 \* position of a stop() of the main thread that a signal interrupted ("none": no such frame)
  other_pc                  \* position of a stop() called by one more thread ("none": not called)

stop_vars == <<stops_done, outer_pc, other_pc>>

client_vars == <<main_pc, running, shutdown_event, tcp_socket, reconnect_attempts,
                 max_reconnect_attempts, reconnection_in_progress, threads_lock,
                 tcp_thread, virtual_thread, virtual_device, master_fd, pc, ret, exc,
                 server_up, connect_calls, stop_vars>>

\* Part II: the backoff function applied to its inputs
VARIABLES
  bk_reconnect_delay,   \* SerialTCPClient.reconnect_delay
  bk_attempts,          \* SerialTCPClient.reconnect_attempts
  bk_delay,             \* the local "delay" of the sequence that ran last (0: none yet)
  bk_prev_delay         \* the local "delay" of the sequence before it (0: none yet)

backoff_vars == <<bk_reconnect_delay, bk_attempts, bk_delay, bk_prev_delay>>

\* Part III: SerialToNetworkBridge
VARIABLES
  srv_main_pc,         \* position of the server's main thread (start / idle / stop)
  srv_running,         \* SerialToNetworkBridge.running
  srv_shutdown_event,  \* SerialToNetworkBridge.shutdown_event (is_set)
  server_socket,       \* SerialToNetworkBridge.server_socket: "None", "created", "listening"
  serial_conn,         \* SerialToNetworkBridge.serial_conn: "None", "open", "closed"
  max_clients,         \* SerialToNetworkBridge.max_clients
  clients,             \* SerialToNetworkBridge.clients: the list of registered sockets
  client_threads,      \* SerialToNetworkBridge.client_threads: the list of handler threads
  sock,                \* sock[c]: socket of connection c: "none" (not accepted), "open", "closed"
  accept_pc,           \* position of accept_connections_thread
  accepted,            \* the connection accept() returned to the accept thread (0: none)
  handler_pc,          \* handler_pc[c]: position of the handle_client thread of connection c
  srv_stops_done       \* history: how many stop() calls of the main thread have returned

\* Part III: serial_to_network_thread
VARIABLES
  serial_pc,             \* position of serial_to_network_thread
  clients_copy,          \* its local clients_copy (the snapshot of the registry)
  send_i,                \* the place in clients_copy of the peer its for loop is at
  disconnected_clients,  \* its local disconnected_clients
  delivered              \* history: the peers whose send of the current chunk returned

serial_vars == <<serial_pc, clients_copy, send_i, disconnected_clients, delivered>>

\* Part IV: one VirtualSerialDevice and the directory entry at its device_path
VARIABLES
  dev_class,        \* "client": serial_tcp_client.py, "echo": virtual_serial_echo.py
  dev_pc,           \* position of the thread that creates and tears down the device
  fs_initial,       \* what was at device_path when creation started
  fs_path,          \* what is at device_path: "absent", "file", "link_old", "link_slave"
  fs_temp,          \* what is at temp_link_path: "absent" or "link_slave"
  dev_master_fd,    \* self.master_fd: "None", "open", or "closed" (a number whose
  dev_slave_fd,     \*   descriptor has been closed); the same for self.slave_fd
  temp_link_path,   \* self.temp_link_path is not None
  device_created,   \* self.device_created (echo)
  display_name,     \* the local display_name of create_virtual_device (client)
  master_closes,    \* number of os.close calls made on the master descriptor
  slave_closes,     \* number of os.close calls made on the slave descriptor
  unlinks,          \* number of os.unlink(device_path) calls made by teardowns
  teardowns,        \* number of teardown calls made
  dev_entry,        \* the method called on the new object: "create" (create_virtual_device,
                    \*   create_device) or "symlink" (_create_symlink_safely itself)
  target_exists,    \* the target passed to _create_symlink_safely exists
  device_name       \* the local device_name that SerialTCPClient.start() prints

device_vars == <<dev_class, dev_pc, fs_initial, fs_path, fs_temp, dev_master_fd,
                 dev_slave_fd, temp_link_path, device_created, display_name,
                 master_closes, slave_closes, unlinks, teardowns, dev_entry,
                 target_exists, device_name>>

\* Part V: _validate_device_path applied to a path
VARIABLES
  vp_absolute,      \* the path starts at the root
  vp_parts,         \* its segments after the root, in order
  vp_result,        \* "none" until the function has returned, then "True" or "False"
                    \*   ("skipped": __init__ did not call it)
  vp_class,         \* the class whose __init__ runs: "client" or "echo"
  vp_ctor,          \* __init__: "running", "raised" (ValueError) or "constructed"
  vp_hook           \* atexit.register(self.cleanup) has been called

validate_vars == <<vp_absolute, vp_parts, vp_result, vp_class, vp_ctor, vp_hook>>

\* Part VI: the chunks relayed from the TCP socket to the pseudo-terminal
VARIABLES
  rx_count,         \* chunks returned by tcp_socket.recv so far (the k-th is chunk k)
  held,             \* per thread: the chunk in its local "data" (0: none, or not followed)
  forwarded,        \* chunks written to master_fd, in the order of the writes
  rx_epoch,         \* per received chunk: "reconnected" when recv returned it
  reconnected,      \* a connect of the reconnect sequence has succeeded
  tx_count,         \* chunks returned by os.read(master_fd) so far
  sent              \* chunks passed to a sendall that returned, in the order of the calls

relay_vars == <<rx_count, held, forwarded, rx_epoch, reconnected, tx_count, sent>>

\* Part VII: the server's registry and clients_lock, statement by statement
VARIABLES
  clients_lock,     \* the thread inside "with self.clients_lock" (0: none)
  lk_pc,            \* per thread: its position around its locked sections
  lk_clients,       \* self.clients
  lk_copy,          \* clients_copy of the broadcast loop
  lk_i,             \* the broadcast's position in clients_copy
  lk_failed         \* disconnected_clients of the broadcast loop

lock_vars == <<clients_lock, lk_pc, lk_clients, lk_copy, lk_i, lk_failed>>

server_vars == <<srv_main_pc, srv_running, srv_shutdown_event, server_socket, serial_conn,
                 max_clients, clients, client_threads, sock, accept_pc, accepted,
                 handler_pc, srv_stops_done, serial_vars>>

\* everything that is not the client's
otherparts_vars == <<backoff_vars, server_vars, device_vars, validate_vars, lock_vars>>

\* left alone by every client step but recv and os.write
nonclient_vars == <<otherparts_vars, relay_vars>>

\* everything that is not the server's: left alone by every server step
nonserver_vars == <<client_vars, backoff_vars, device_vars, validate_vars, relay_vars, lock_vars>>

\* everything that is not the pseudo-device's: left alone by every device step
nondevice_vars == <<client_vars, backoff_vars, server_vars, validate_vars, relay_vars, lock_vars>>

\* everything that is not the validation's
nonvalidate_vars == <<client_vars, backoff_vars, server_vars, device_vars, relay_vars, lock_vars>>

\* no chunk has been received yet
RelayInit ==
  /\ rx_count = 0
  /\ held = [t \in Threads |-> 0]
  /\ forwarded = <<>>
  /\ rx_epoch = <<>>
  /\ reconnected = FALSE
  /\ tx_count = 0
  /\ sent = <<>>

\* the chunks are not followed while another question is explored
RelayIdle ==
  /\ rx_count = MaxChunks
  /\ held = [t \in Threads |-> 0]
  /\ forwarded = <<>>
  /\ rx_epoch = <<>>
  /\ reconnected = TRUE
  /\ tx_count = MaxChunks
  /\ sent = <<>>

SocketStates == {"None", "created", "connected", "closed"}

(***************************************************************************)
(* SerialTCPClient.__init__                                                *)
(***************************************************************************)
ClientInit ==
  /\ main_pc = "start_dev"
  /\ running = FALSE
  /\ shutdown_event = FALSE
  /\ tcp_socket = "None"
  /\ reconnect_attempts = 0
  /\ max_reconnect_attempts \in 1..MaxAttempts
  /\ reconnection_in_progress = FALSE
  /\ threads_lock = 0
  /\ tcp_thread = 0
  /\ virtual_thread = 0
  /\ virtual_device = FALSE
  /\ master_fd = "None"
  /\ pc = [t \in Threads |-> "unborn"]
  /\ ret = [t \in Threads |-> "continue"]
  /\ exc = [t \in Threads |-> FALSE]
  /\ server_up = TRUE
  /\ connect_calls = 0
  /\ stops_done = 0
  /\ outer_pc = "none"
  /\ other_pc = "none"

(***************************************************************************)
(* The main thread: main() calls start(), sleeps, and calls stop() on a    *)
(* signal or when start() returned False.                                  *)
(***************************************************************************)

\* start(): where the main thread is after setup_virtual_device() ended with
\* outcome r.  "invalid": the ValueError of VirtualSerialDevice.__init__
\* leaves start(), which has no try; otherwise "if not ...: return False".
AfterSetup(r) ==
  CASE r = "created" -> "start_conn"
    [] r = "invalid" -> "start_raised"
    [] OTHER         -> "start_false"

\* start(), first half: setup_virtual_device() ->
\* VirtualSerialDevice(self.virtual_device_path), create_virtual_device().
\* "invalid": _validate_device_path rejected the path, the constructor raised
\* and self.virtual_device was not assigned; "created": True; "refused": the
\* device path is a regular file, False is returned with both descriptors
\* open; "failed": pty.openpty() raised, False.
StartDevice ==
  /\ main_pc = "start_dev"
  /\ \E r \in {"created", "refused", "failed", "invalid"} :
       /\ virtual_device' = (r # "invalid")
       /\ master_fd' = IF r \in {"failed", "invalid"} THEN "None" ELSE "open"
       /\ main_pc' = AfterSetup(r)
  /\ UNCHANGED nonclient_vars
  /\ UNCHANGED stop_vars
  /\ UNCHANGED <<running, shutdown_event, tcp_socket, reconnect_attempts,
                 max_reconnect_attempts, reconnection_in_progress, threads_lock,
                 tcp_thread, virtual_thread, pc, ret, exc, server_up, connect_calls>>

\* mutant of AttemptsAfterConnect: the counter is not reset
AttemptsAfterConnect_NoReset(n) == n

\* connect_to_server, success: the value stored in reconnect_attempts
\* (with self.reconnection_lock: self.reconnect_attempts = 0)
AttemptsAfterConnect(n) == 0

\* a failure branch that closes the socket and keeps the reference to it
SocketAfterFailure_Kept(s) == IF s = "None" THEN "None" ELSE "closed"

\* connect_to_server, "except socket.error" / "except Exception":
\*   if self.tcp_socket: close(); self.tcp_socket = None
\* the value of self.tcp_socket when False is returned
SocketAfterFailure(s) == "None"

\* start(): if not self.connect_to_server(): return False
\* (no other thread exists yet, so the call is one step)
StartConnect ==
  /\ main_pc = "start_conn"
  /\ \E ok \in BOOLEAN :
       /\ ok => server_up
       /\ IF ok
            THEN /\ tcp_socket' = "connected"
                 /\ reconnect_attempts' = AttemptsAfterConnect(reconnect_attempts)
                 /\ main_pc' = "start_run"
            ELSE /\ tcp_socket' = SocketAfterFailure(tcp_socket)
                 /\ main_pc' = "start_false"
                 /\ UNCHANGED reconnect_attempts
  /\ UNCHANGED nonclient_vars
  /\ UNCHANGED stop_vars
  /\ UNCHANGED <<running, shutdown_event, max_reconnect_attempts, reconnection_in_progress,
                 threads_lock, tcp_thread, virtual_thread, virtual_device, master_fd,
                 pc, ret, exc, server_up, connect_calls>>

\* main(): start() returned False, "client.stop()" follows; start() raised,
\* the interpreter exits and the function registered with atexit calls stop()
StartFailed ==
  /\ main_pc \in {"start_false", "start_raised"}
  /\ main_pc' = "stop_run"
  /\ UNCHANGED nonclient_vars
  /\ UNCHANGED stop_vars
  /\ UNCHANGED <<running, shutdown_event, tcp_socket, reconnect_attempts,
                 max_reconnect_attempts, reconnection_in_progress, threads_lock,
                 tcp_thread, virtual_thread, virtual_device, master_fd,
                 pc, ret, exc, server_up, connect_calls>>

\* start(): self.running = True; with self.threads_lock: both relay threads
\* are created and started
StartThreads ==
  /\ main_pc = "start_run"
  /\ running' = TRUE
  /\ tcp_thread' = 1
  /\ virtual_thread' = 2
  /\ pc' = [pc EXCEPT ![1] = "loop", ![2] = "loop"]
  /\ main_pc' = "idle"
  /\ UNCHANGED nonclient_vars
  /\ UNCHANGED stop_vars
  /\ UNCHANGED <<shutdown_event, tcp_socket, reconnect_attempts,
                 max_reconnect_attempts, reconnection_in_progress, threads_lock,
                 virtual_device, master_fd, ret, exc, server_up, connect_calls>>

\* main(): a signal (signal_handler) or KeyboardInterrupt ends the sleep loop
\* and stop() is entered; after stop() has returned it is called again (the
\* function registered with atexit, or the caller of the object).
StopRequest ==
  /\ main_pc \in {"idle", "stopped", "exited"}
  /\ outer_pc = "none"
  /\ stops_done < MaxStopCalls
  /\ main_pc' = "stop_run"
  /\ UNCHANGED nonclient_vars
  /\ UNCHANGED stop_vars
  /\ UNCHANGED <<running, shutdown_event, tcp_socket, reconnect_attempts,
                 max_reconnect_attempts, reconnection_in_progress, threads_lock,
                 tcp_thread, virtual_thread, virtual_device, master_fd, pc, ret, exc,
                 server_up, connect_calls>>

\* stop(): self.running = False
StopRunning ==
  /\ main_pc = "stop_run"
  /\ running' = FALSE
  /\ main_pc' = "stop_event"
  /\ UNCHANGED nonclient_vars
  /\ UNCHANGED stop_vars
  /\ UNCHANGED <<shutdown_event, tcp_socket, reconnect_attempts,
                 max_reconnect_attempts, reconnection_in_progress, threads_lock,
                 tcp_thread, virtual_thread, virtual_device, master_fd, pc, ret, exc,
                 server_up, connect_calls>>

\* stop(): self.shutdown_event.set()
StopEvent ==
  /\ main_pc = "stop_event"
  /\ shutdown_event' = TRUE
  /\ main_pc' = "stop_lock"
  /\ UNCHANGED nonclient_vars
  /\ UNCHANGED stop_vars
  /\ UNCHANGED <<running, tcp_socket, reconnect_attempts,
                 max_reconnect_attempts, reconnection_in_progress, threads_lock,
                 tcp_thread, virtual_thread, virtual_device, master_fd, pc, ret, exc,
                 server_up, connect_calls>>

\* stop(): with self.threads_lock (acquire)
StopLock ==
  /\ main_pc = "stop_lock"
  /\ threads_lock = 0
  /\ threads_lock' = -1
  /\ main_pc' = "stop_join"
  /\ UNCHANGED nonclient_vars
  /\ UNCHANGED stop_vars
  /\ UNCHANGED <<running, shutdown_event, tcp_socket, reconnect_attempts,
                 max_reconnect_attempts, reconnection_in_progress,
                 tcp_thread, virtual_thread, virtual_device, master_fd, pc, ret, exc,
                 server_up, connect_calls>>

\* a stop() that goes from the joins straight to the device
AfterJoins_DeviceFirst == "stop_dev"

\* stop(): the statement that follows the joins: if self.tcp_socket: ...
AfterJoins == "stop_sock"

\* stop(): join(timeout=3.0) of both threads; each join returns when the
\* thread has ended or the timeout expired; then the lock is released.
StopJoin ==
  /\ main_pc = "stop_join"
  /\ threads_lock' = 0
  /\ main_pc' = AfterJoins
  /\ UNCHANGED nonclient_vars
  /\ UNCHANGED stop_vars
  /\ UNCHANGED <<running, shutdown_event, tcp_socket, reconnect_attempts,
                 max_reconnect_attempts, reconnection_in_progress,
                 tcp_thread, virtual_thread, virtual_device, master_fd, pc, ret, exc,
                 server_up, connect_calls>>

\* stop(): if self.tcp_socket: shutdown(SHUT_RDWR); close()
\* both calls are inside try / except Exception: when they raise, the socket
\* stays as it was and stop() goes on
StopSocketClose ==
  /\ main_pc = "stop_sock"
  /\ IF tcp_socket # "None"
       THEN /\ \E raised \in BOOLEAN :
                 tcp_socket' = IF raised THEN tcp_socket ELSE "closed"
            /\ main_pc' = "stop_sock_none"
       ELSE /\ UNCHANGED tcp_socket
            /\ main_pc' = "stop_dev"
  /\ UNCHANGED nonclient_vars
  /\ UNCHANGED stop_vars
  /\ UNCHANGED <<running, shutdown_event, reconnect_attempts,
                 max_reconnect_attempts, reconnection_in_progress, threads_lock,
                 tcp_thread, virtual_thread, virtual_device, master_fd, pc, ret, exc,
                 server_up, connect_calls>>

\* stop(): self.tcp_socket = None
StopSocketNone ==
  /\ main_pc = "stop_sock_none"
  /\ tcp_socket' = "None"
  /\ main_pc' = "stop_dev"
  /\ UNCHANGED nonclient_vars
  /\ UNCHANGED stop_vars
  /\ UNCHANGED <<running, shutdown_event, reconnect_attempts,
                 max_reconnect_attempts, reconnection_in_progress, threads_lock,
                 tcp_thread, virtual_thread, virtual_device, master_fd, pc, ret, exc,
                 server_up, connect_calls>>

\* stop(): if self.virtual_device: self.virtual_device.close()
\* VirtualSerialDevice.close: if self.master_fd is not None: os.close(self.master_fd)
StopDeviceClose ==
  /\ main_pc = "stop_dev"
  /\ IF virtual_device
       THEN /\ master_fd' = IF master_fd = "None" THEN "None" ELSE "closed"
            /\ main_pc' = "stop_dev_fd"
       ELSE /\ UNCHANGED master_fd
            /\ main_pc' = "stopped"
  /\ stops_done' = IF virtual_device THEN stops_done ELSE stops_done + 1
  /\ UNCHANGED nonclient_vars
  /\ UNCHANGED <<outer_pc, other_pc>>
  /\ UNCHANGED <<running, shutdown_event, tcp_socket, reconnect_attempts,
                 max_reconnect_attempts, reconnection_in_progress, threads_lock,
                 tcp_thread, virtual_thread, virtual_device, pc, ret, exc,
                 server_up, connect_calls>>

\* a close() that keeps the closed descriptor in the attribute
FdAfterClose_Kept == "closed"

\* VirtualSerialDevice.close: the value stored after os.close: self.master_fd = None
FdAfterClose == "None"

\* VirtualSerialDevice.close: self.master_fd = None (then the same for slave_fd)
StopDeviceFdNone ==
  /\ main_pc = "stop_dev_fd"
  /\ master_fd' = FdAfterClose
  /\ main_pc' = "stop_dev_none"
  /\ UNCHANGED nonclient_vars
  /\ UNCHANGED stop_vars
  /\ UNCHANGED <<running, shutdown_event, tcp_socket, reconnect_attempts,
                 max_reconnect_attempts, reconnection_in_progress, threads_lock,
                 tcp_thread, virtual_thread, virtual_device, pc, ret, exc,
                 server_up, connect_calls>>

\* stop(): self.virtual_device = None
StopDeviceNone ==
  /\ main_pc = "stop_dev_none"
  /\ virtual_device' = FALSE
  /\ main_pc' = "stopped"
  /\ stops_done' = stops_done + 1
  /\ UNCHANGED nonclient_vars
  /\ UNCHANGED <<outer_pc, other_pc>>
  /\ UNCHANGED <<running, shutdown_event, tcp_socket, reconnect_attempts,
                 max_reconnect_attempts, reconnection_in_progress, threads_lock,
                 tcp_thread, virtual_thread, master_fd, pc, ret, exc,
                 server_up, connect_calls>>

\* start() is called again on a client whose stop() has returned and whose
\* relay threads have all ended; start() tests nothing before its first
\* statement, setup_virtual_device()
StartAfterStop ==
  /\ main_pc = "stopped"
  /\ outer_pc = "none"
  /\ stops_done \in 1..(MaxStopCalls - 1)
  /\ \A t \in Threads : pc[t] \in {"unborn", "done"}
  /\ main_pc' = "start_dev"
  /\ UNCHANGED nonclient_vars
  /\ UNCHANGED stop_vars
  /\ UNCHANGED <<running, shutdown_event, tcp_socket, reconnect_attempts,
                 max_reconnect_attempts, reconnection_in_progress, threads_lock,
                 tcp_thread, virtual_thread, virtual_device, master_fd, pc, ret, exc,
                 server_up, connect_calls>>

(***************************************************************************)
(* stop() called by one more thread while the main thread may be in its    *)
(* own stop().  The statements of stop() and of VirtualSerialDevice.close  *)
(* are followed one attribute access at a time: "if self.x:" and the use   *)
(* of self.x that follows are two steps.                                   *)
(***************************************************************************)
\* what a step of the other caller leaves alone besides the named attributes
OtherFrame ==
  /\ UNCHANGED nonclient_vars
  /\ UNCHANGED <<main_pc, reconnect_attempts, max_reconnect_attempts,
                 reconnection_in_progress, tcp_thread, virtual_thread, pc, ret, exc,
                 server_up, connect_calls, stops_done, outer_pc>>

\* another thread calls client.stop() on a client whose start() has returned
OtherStopCall ==
  /\ other_pc = "none"
  /\ main_pc \notin {"absent", "start_dev", "start_conn", "start_run"}
  /\ other_pc' = "stop_run"
  /\ OtherFrame
  /\ UNCHANGED <<running, shutdown_event, tcp_socket, threads_lock, virtual_device, master_fd>>

\* stop(): self.running = False
OtherStopRunning ==
  /\ other_pc = "stop_run"
  /\ running' = FALSE
  /\ other_pc' = "stop_event"
  /\ OtherFrame
  /\ UNCHANGED <<shutdown_event, tcp_socket, threads_lock, virtual_device, master_fd>>

\* stop(): self.shutdown_event.set()
OtherStopEvent ==
  /\ other_pc = "stop_event"
  /\ shutdown_event' = TRUE
  /\ other_pc' = "stop_lock"
  /\ OtherFrame
  /\ UNCHANGED <<running, tcp_socket, threads_lock, virtual_device, master_fd>>

\* stop(): with self.threads_lock (acquire; -2: held by the other caller)
OtherStopLock ==
  /\ other_pc = "stop_lock"
  /\ threads_lock = 0
  /\ threads_lock' = -2
  /\ other_pc' = "stop_join"
  /\ OtherFrame
  /\ UNCHANGED <<running, shutdown_event, tcp_socket, virtual_device, master_fd>>

\* stop(): the joins with timeout, then the lock is released
OtherStopJoin ==
  /\ other_pc = "stop_join"
  /\ threads_lock' = 0
  /\ other_pc' = "stop_sock"
  /\ OtherFrame
  /\ UNCHANGED <<running, shutdown_event, tcp_socket, virtual_device, master_fd>>

\* stop(): if self.tcp_socket:
OtherSocketCheck ==
  /\ other_pc = "stop_sock"
  /\ other_pc' = IF tcp_socket # "None" THEN "sock_close" ELSE "stop_dev"
  /\ OtherFrame
  /\ UNCHANGED <<running, shutdown_event, tcp_socket, threads_lock, virtual_device, master_fd>>

\* stop(): try: self.tcp_socket.shutdown(...) except Exception: pass
\*         try: self.tcp_socket.close() except Exception: ...
\* (on None the AttributeError is swallowed by "except Exception")
OtherSocketClose ==
  /\ other_pc = "sock_close"
  /\ tcp_socket' = IF tcp_socket = "None" THEN "None" ELSE "closed"
  /\ other_pc' = "sock_none"
  /\ OtherFrame
  /\ UNCHANGED <<running, shutdown_event, threads_lock, virtual_device, master_fd>>

\* stop(): self.tcp_socket = None
OtherSocketNone ==
  /\ other_pc = "sock_none"
  /\ tcp_socket' = "None"
  /\ other_pc' = "stop_dev"
  /\ OtherFrame
  /\ UNCHANGED <<running, shutdown_event, threads_lock, virtual_device, master_fd>>

\* stop(): if self.virtual_device:
OtherDeviceCheck ==
  /\ other_pc = "stop_dev"
  /\ other_pc' = IF virtual_device THEN "dev_call" ELSE "returned"
  /\ OtherFrame
  /\ UNCHANGED <<running, shutdown_event, tcp_socket, threads_lock, virtual_device, master_fd>>

\* stop(): self.virtual_device.close()
\*   self.virtual_device is read again: on None the call raises AttributeError,
\*   which nothing in stop() catches
OtherDeviceCall ==
  /\ other_pc = "dev_call"
  /\ other_pc' = IF virtual_device THEN "dev_fd_check" ELSE "raised"
  /\ OtherFrame
  /\ UNCHANGED <<running, shutdown_event, tcp_socket, threads_lock, virtual_device, master_fd>>

\* VirtualSerialDevice.close: if self.master_fd is not None:
OtherDeviceFdCheck ==
  /\ other_pc = "dev_fd_check"
  /\ other_pc' = IF master_fd # "None" THEN "dev_fd_close" ELSE "dev_none"
  /\ OtherFrame
  /\ UNCHANGED <<running, shutdown_event, tcp_socket, threads_lock, virtual_device, master_fd>>

\* VirtualSerialDevice.close: try: os.close(self.master_fd) except OSError: ...
\*   self.master_fd is read again: os.close(None) raises TypeError, which is
\*   no OSError and is caught nowhere; on a closed descriptor EBADF is ignored
OtherDeviceFdClose ==
  /\ other_pc = "dev_fd_close"
  /\ IF master_fd = "None"
       THEN /\ other_pc' = "raised"
            /\ UNCHANGED master_fd
       ELSE /\ other_pc' = "dev_fd_none"
            /\ master_fd' = "closed"
  /\ OtherFrame
  /\ UNCHANGED <<running, shutdown_event, tcp_socket, threads_lock, virtual_device>>

\* VirtualSerialDevice.close: self.master_fd = None
OtherDeviceFdNone ==
  /\ other_pc = "dev_fd_none"
  /\ master_fd' = "None"
  /\ other_pc' = "dev_none"
  /\ OtherFrame
  /\ UNCHANGED <<running, shutdown_event, tcp_socket, threads_lock, virtual_device>>

\* stop(): self.virtual_device = None
OtherDeviceNone ==
  /\ other_pc = "dev_none"
  /\ virtual_device' = FALSE
  /\ other_pc' = "returned"
  /\ OtherFrame
  /\ UNCHANGED <<running, shutdown_event, tcp_socket, threads_lock, master_fd>>

OtherStep ==
  \/ OtherStopCall
  \/ OtherStopRunning
  \/ OtherStopEvent
  \/ OtherStopLock
  \/ OtherStopJoin
  \/ OtherSocketCheck
  \/ OtherSocketClose
  \/ OtherSocketNone
  \/ OtherDeviceCheck
  \/ OtherDeviceCall
  \/ OtherDeviceFdCheck
  \/ OtherDeviceFdClose
  \/ OtherDeviceFdNone
  \/ OtherDeviceNone

(***************************************************************************)
(* A signal delivered while the main thread is inside stop(): Python runs  *)
(* signal_handler on the main thread, on top of the interrupted frame,     *)
(* which resumes only when the handler returns.                            *)
(***************************************************************************)
\* positions of the main thread inside stop()
StopPcs == {"stop_run", "stop_event", "stop_lock", "stop_join", "stop_sock",
            "stop_sock_none", "stop_dev", "stop_dev_fd", "stop_dev_none"}

\* signal_handler: if client_instance: client_instance.stop()
\* (the interrupted stop() keeps its place, and threads_lock if it holds it)
SignalDuringStop ==
  /\ main_pc \in StopPcs
  /\ outer_pc = "none"
  /\ outer_pc' = main_pc
  /\ main_pc' = "stop_run"
  /\ UNCHANGED nonclient_vars
  /\ UNCHANGED <<running, shutdown_event, tcp_socket, reconnect_attempts,
                 max_reconnect_attempts, reconnection_in_progress, threads_lock,
                 tcp_thread, virtual_thread, virtual_device, master_fd, pc, ret, exc,
                 server_up, connect_calls, stops_done, other_pc>>

\* signal_handler: sys.exit(0) after the nested stop() has returned: SystemExit
\* unwinds the interrupted frame and the process exits
SignalHandlerExit ==
  /\ main_pc = "stopped"
  /\ outer_pc # "none"
  /\ main_pc' = "exited"
  /\ outer_pc' = "none"
  /\ UNCHANGED nonclient_vars
  /\ UNCHANGED <<running, shutdown_event, tcp_socket, reconnect_attempts,
                 max_reconnect_attempts, reconnection_in_progress, threads_lock,
                 tcp_thread, virtual_thread, virtual_device, master_fd, pc, ret, exc,
                 server_up, connect_calls, stops_done, other_pc>>

\* environment: the remote server goes away; every later connect fails
ServerDown ==
  /\ server_up
  /\ server_up' = FALSE
  /\ UNCHANGED nonclient_vars
  /\ UNCHANGED stop_vars
  /\ UNCHANGED <<main_pc, running, shutdown_event, tcp_socket, reconnect_attempts,
                 max_reconnect_attempts, reconnection_in_progress, threads_lock,
                 tcp_thread, virtual_thread, virtual_device, master_fd, pc, ret, exc,
                 connect_calls>>

(***************************************************************************)
(* The relay threads.  Frame helpers: a relay step changes pc[t] and at    *)
(* most the named attributes.                                              *)
(***************************************************************************)
Goto(t, p) == pc' = [pc EXCEPT ![t] = p]

\* entering _handle_connection_loss from a place followed by continue / break
CallHcl(t, after) ==
  /\ pc' = [pc EXCEPT ![t] = "hcl"]
  /\ ret' = [ret EXCEPT ![t] = after]

\* where the thread goes when _handle_connection_loss returns normally
AfterHcl(t) == IF ret[t] = "break" THEN "done" ELSE "loop"

\* while self.running and not self.shutdown_event.is_set()
\* (the loop head of both relay threads)
LoopHead(t) ==
  /\ pc[t] = "loop"
  /\ IF running /\ ~shutdown_event
       THEN Goto(t, IF Kind(t) = "tcp" THEN "chk" ELSE "vsel")
       ELSE Goto(t, "done")
  /\ UNCHANGED nonclient_vars
  /\ UNCHANGED stop_vars
  /\ UNCHANGED <<main_pc, running, shutdown_event, tcp_socket, reconnect_attempts,
                 max_reconnect_attempts, reconnection_in_progress, threads_lock,
                 tcp_thread, virtual_thread, virtual_device, master_fd, ret, exc,
                 server_up, connect_calls>>

\* tcp_to_virtual_thread: if not self.tcp_socket: time.sleep(0.1); continue
TcpCheckSocket(t) ==
  /\ pc[t] = "chk"
  /\ Goto(t, IF tcp_socket = "None" THEN "loop" ELSE "select")
  /\ UNCHANGED nonclient_vars
  /\ UNCHANGED stop_vars
  /\ UNCHANGED <<main_pc, running, shutdown_event, tcp_socket, reconnect_attempts,
                 max_reconnect_attempts, reconnection_in_progress, threads_lock,
                 tcp_thread, virtual_thread, virtual_device, master_fd, ret, exc,
                 server_up, connect_calls>>

\* tcp_to_virtual_thread: ready = select.select([self.tcp_socket], [], [], 0.5)
\*   None            -> TypeError, caught by the outer except Exception: break
\*   closed socket   -> ValueError (fileno -1): _handle_connection_loss(); break
\*   otherwise       -> timeout (next iteration), readable, or OSError
TcpSelect(t) ==
  /\ pc[t] = "select"
  /\ CASE tcp_socket = "None"   -> Goto(t, "done") /\ UNCHANGED ret
       [] tcp_socket = "closed" -> CallHcl(t, "break")
       [] OTHER -> \E r \in {"timeout", "ready", "oserror"} :
                     CASE r = "timeout" -> Goto(t, "loop") /\ UNCHANGED ret
                       [] r = "ready"   -> Goto(t, "recv") /\ UNCHANGED ret
                       [] OTHER         -> CallHcl(t, "break")
  /\ UNCHANGED nonclient_vars
  /\ UNCHANGED stop_vars
  /\ UNCHANGED <<main_pc, running, shutdown_event, tcp_socket, reconnect_attempts,
                 max_reconnect_attempts, reconnection_in_progress, threads_lock,
                 tcp_thread, virtual_thread, virtual_device, master_fd, exc,
                 server_up, connect_calls>>

\* data = self.tcp_socket.recv(4096) returned the next bytes of the stream:
\* they are this thread's "data" until its os.write
Received(t) ==
  IF rx_count < MaxChunks
    THEN /\ rx_count' = rx_count + 1
         /\ held' = [held EXCEPT ![t] = rx_count + 1]
         /\ rx_epoch' = Append(rx_epoch, reconnected)
         /\ UNCHANGED <<forwarded, reconnected, tx_count, sent>>
    ELSE UNCHANGED relay_vars

\* bytes_written = os.write(self.virtual_device.master_fd, data) returned
Written(t) ==
  /\ forwarded' = IF held[t] # 0 THEN Append(forwarded, held[t]) ELSE forwarded
  /\ held' = [held EXCEPT ![t] = 0]
  /\ UNCHANGED <<rx_count, rx_epoch, reconnected, tx_count, sent>>

\* data = os.read(self.virtual_device.master_fd, 4096) returned the next
\* bytes written by the program that opened the device
DeviceData(t) ==
  IF tx_count < MaxChunks
    THEN /\ tx_count' = tx_count + 1
         /\ held' = [held EXCEPT ![t] = tx_count + 1]
         /\ UNCHANGED <<rx_count, forwarded, rx_epoch, reconnected, sent>>
    ELSE UNCHANGED relay_vars

\* self.tcp_socket.sendall(data) returned
Sent(t) ==
  /\ sent' = IF held[t] # 0 THEN Append(sent, held[t]) ELSE sent
  /\ held' = [held EXCEPT ![t] = 0]
  /\ UNCHANGED <<rx_count, forwarded, rx_epoch, reconnected, tx_count>>

\* the iteration ends without a write or a completed sendall: "data" is dropped
NotWritten(t) ==
  /\ held' = [held EXCEPT ![t] = 0]
  /\ UNCHANGED <<rx_count, forwarded, rx_epoch, reconnected, tx_count, sent>>

\* tcp_to_virtual_thread: data = self.tcp_socket.recv(4096)
\*   None              -> AttributeError, outer except: break
\*   closed or not yet connected socket -> socket.error: loss handling, continue
\*   connected         -> data, b'' (loss handling, continue) or socket.error
TcpRecv(t) ==
  /\ pc[t] = "recv"
  /\ CASE tcp_socket = "None" -> Goto(t, "done") /\ UNCHANGED <<ret, relay_vars>>
       [] tcp_socket \in {"closed", "created"} ->
            CallHcl(t, "continue") /\ UNCHANGED relay_vars
       [] OTHER -> \E r \in {"data", "empty", "error"} :
                     CASE r = "data"  -> /\ Goto(t, "write")
                                         /\ Received(t)
                                         /\ UNCHANGED ret
                       [] r = "empty" -> /\ Goto(t, "recv_empty")
                                         /\ UNCHANGED <<ret, relay_vars>>
                       [] OTHER       -> CallHcl(t, "continue") /\ UNCHANGED relay_vars
  /\ UNCHANGED otherparts_vars
  /\ UNCHANGED stop_vars
  /\ UNCHANGED <<main_pc, running, shutdown_event, tcp_socket, reconnect_attempts,
                 max_reconnect_attempts, reconnection_in_progress, threads_lock,
                 tcp_thread, virtual_thread, virtual_device, master_fd, exc,
                 server_up, connect_calls>>

\* a relay loop that passes the empty chunk on to the device
EmptyRecvForwarded_Written == TRUE

\* tcp_to_virtual_thread: "if not data:" keeps b'' away from os.write
EmptyRecvForwarded == FALSE

\* tcp_to_virtual_thread, recv returned b'':
\*   if not data: self._handle_connection_loss(); continue
TcpRecvEmpty(t) ==
  /\ pc[t] = "recv_empty"
  /\ IF EmptyRecvForwarded
       THEN Goto(t, "write") /\ UNCHANGED ret
       ELSE CallHcl(t, "continue")
  /\ UNCHANGED nonclient_vars
  /\ UNCHANGED stop_vars
  /\ UNCHANGED <<main_pc, running, shutdown_event, tcp_socket, reconnect_attempts,
                 max_reconnect_attempts, reconnection_in_progress, threads_lock,
                 tcp_thread, virtual_thread, virtual_device, master_fd, exc,
                 server_up, connect_calls>>

\* tcp_to_virtual_thread: os.write(self.virtual_device.master_fd, data)
\*   no device / master_fd None -> nothing is written, next iteration
\*   written (fully or partially) -> next iteration
\*   OSError EIO or EBADF        -> "except OSError" (EBADF always when the
\*                                  descriptor was closed)
\*   any other OSError is re-raised and caught by "except socket.error"
\*   (socket.error is OSError): loss handling, continue
TcpWrite(t) ==
  /\ pc[t] = "write"
  /\ IF ~virtual_device \/ master_fd = "None"
       THEN Goto(t, "loop") /\ NotWritten(t) /\ UNCHANGED ret
       ELSE \E r \in {"ok", "blocks", "eio", "oserror"} :
              CASE master_fd = "closed" ->
                     Goto(t, "dev_ebadf") /\ NotWritten(t) /\ UNCHANGED ret
                [] r = "ok"        -> Goto(t, "loop") /\ Written(t) /\ UNCHANGED ret
                [] r = "blocks"    -> /\ Goto(t, "write_blocked")
                                      /\ UNCHANGED <<ret, relay_vars>>
                [] r = "eio"       -> Goto(t, "dev_eio") /\ NotWritten(t) /\ UNCHANGED ret
                [] OTHER           -> CallHcl(t, "continue") /\ NotWritten(t)
  /\ UNCHANGED otherparts_vars
  /\ UNCHANGED stop_vars
  /\ UNCHANGED <<main_pc, running, shutdown_event, tcp_socket, reconnect_attempts,
                 max_reconnect_attempts, reconnection_in_progress, threads_lock,
                 tcp_thread, virtual_thread, virtual_device, master_fd, exc,
                 server_up, connect_calls>>

\* os.write(master_fd, data) on the blocking master side: with the
\* terminal's input queue full the call waits, without a timeout, until
\* the program that opened the device reads.  That program's read is a step
\* of the environment, not of the thread.
DeviceRead(t) ==
  /\ pc[t] = "write_blocked"
  /\ Goto(t, "loop")
  /\ Written(t)
  /\ UNCHANGED ret
  /\ UNCHANGED otherparts_vars
  /\ UNCHANGED stop_vars
  /\ UNCHANGED <<main_pc, running, shutdown_event, tcp_socket, reconnect_attempts,
                 max_reconnect_attempts, reconnection_in_progress, threads_lock,
                 tcp_thread, virtual_thread, virtual_device, master_fd, exc,
                 server_up, connect_calls>>

\* virtual_to_tcp_thread: select.select([self.virtual_device.master_fd], [], [], 0.5)
\*   no device / master_fd None -> next iteration
\*   select raises              -> break
\*   otherwise timeout or readable
VirtSelect(t) ==
  /\ pc[t] = "vsel"
  /\ IF ~virtual_device \/ master_fd = "None"
       THEN Goto(t, "loop")
       ELSE \E r \in {"timeout", "ready", "error"} :
              CASE master_fd = "closed" -> Goto(t, "done")
                [] r = "timeout" -> Goto(t, "loop")
                [] r = "ready"   -> Goto(t, "vread")
                [] OTHER         -> Goto(t, "done")
  /\ UNCHANGED nonclient_vars
  /\ UNCHANGED stop_vars
  /\ UNCHANGED <<main_pc, running, shutdown_event, tcp_socket, reconnect_attempts,
                 max_reconnect_attempts, reconnection_in_progress, threads_lock,
                 tcp_thread, virtual_thread, virtual_device, master_fd, ret, exc,
                 server_up, connect_calls>>

\* virtual_to_tcp_thread: data = os.read(self.virtual_device.master_fd, 4096)
\*   device gone (None) -> AttributeError / TypeError, outer except: break
\*   OSError            -> "except OSError" (EIO, EBADF); any other is re-raised
\*                         to the outer except: break
\*   b''                -> next iteration;  data -> send it
VirtRead(t) ==
  /\ pc[t] = "vread"
  /\ IF ~virtual_device \/ master_fd = "None"
       THEN Goto(t, "done") /\ UNCHANGED relay_vars
       ELSE \E r \in {"data", "empty", "eio", "error"} :
              CASE master_fd = "closed" -> Goto(t, "dev_ebadf") /\ UNCHANGED relay_vars
                [] r = "data"  -> Goto(t, "vsend") /\ DeviceData(t)
                [] r = "empty" -> Goto(t, "loop") /\ UNCHANGED relay_vars
                [] r = "eio"   -> Goto(t, "dev_eio") /\ UNCHANGED relay_vars
                [] OTHER       -> Goto(t, "done") /\ UNCHANGED relay_vars
  /\ UNCHANGED otherparts_vars
  /\ UNCHANGED stop_vars
  /\ UNCHANGED <<main_pc, running, shutdown_event, tcp_socket, reconnect_attempts,
                 max_reconnect_attempts, reconnection_in_progress, threads_lock,
                 tcp_thread, virtual_thread, virtual_device, master_fd, ret, exc,
                 server_up, connect_calls>>

\* an "except OSError" that treats the device error as a lost connection
DeviceErrorEnds_Reconnects(p) == FALSE

\* both relay loops, "except OSError as e" around os.write / os.read:
\*   if e.errno == errno.EIO: break   elif e.errno == errno.EBADF: break
DeviceErrorEnds(p) == p \in {"dev_eio", "dev_ebadf"}

\* the relay loop that caught EIO or EBADF from the pseudo-device
DeviceError(t) ==
  /\ pc[t] \in {"dev_eio", "dev_ebadf"}
  /\ IF DeviceErrorEnds(pc[t])
       THEN Goto(t, "done") /\ UNCHANGED ret
       ELSE CallHcl(t, "continue")
  /\ UNCHANGED nonclient_vars
  /\ UNCHANGED stop_vars
  /\ UNCHANGED <<main_pc, running, shutdown_event, tcp_socket, reconnect_attempts,
                 max_reconnect_attempts, reconnection_in_progress, threads_lock,
                 tcp_thread, virtual_thread, virtual_device, master_fd, exc,
                 server_up, connect_calls>>

\* virtual_to_tcp_thread: if self.tcp_socket:  (else the chunk is dropped)
VirtCheckSocket(t) ==
  /\ pc[t] = "vsend"
  /\ IF tcp_socket = "None"
       THEN Goto(t, "loop") /\ NotWritten(t)
       ELSE Goto(t, "vsendall") /\ UNCHANGED relay_vars
  /\ UNCHANGED otherparts_vars
  /\ UNCHANGED stop_vars
  /\ UNCHANGED <<main_pc, running, shutdown_event, tcp_socket, reconnect_attempts,
                 max_reconnect_attempts, reconnection_in_progress, threads_lock,
                 tcp_thread, virtual_thread, virtual_device, master_fd, ret, exc,
                 server_up, connect_calls>>

\* virtual_to_tcp_thread: self.tcp_socket.sendall(data)
\*   None          -> AttributeError, outer except: break
\*   closed socket -> OSError EBADF: not EPIPE/ECONNRESET, re-raised, caught by
\*                    "except OSError" as EBADF: break
\*   otherwise     -> sent; EPIPE/ECONNRESET: loss handling, continue;
\*                    any other socket error: re-raised, break
VirtSendall(t) ==
  /\ pc[t] = "vsendall"
  /\ CASE tcp_socket \in {"None", "closed"} ->
            Goto(t, "done") /\ NotWritten(t) /\ UNCHANGED ret
       [] tcp_socket = "created" ->
            \E r \in {"epipe", "other"} :
              IF r = "epipe" THEN CallHcl(t, "continue") /\ NotWritten(t)
                             ELSE Goto(t, "done") /\ NotWritten(t) /\ UNCHANGED ret
       [] OTHER ->
            \E r \in {"sent", "epipe", "other"} :
              CASE r = "sent"  -> Goto(t, "loop") /\ Sent(t) /\ UNCHANGED ret
                [] r = "epipe" -> CallHcl(t, "continue") /\ NotWritten(t)
                [] OTHER       -> Goto(t, "done") /\ NotWritten(t) /\ UNCHANGED ret
  /\ UNCHANGED otherparts_vars
  /\ UNCHANGED stop_vars
  /\ UNCHANGED <<main_pc, running, shutdown_event, tcp_socket, reconnect_attempts,
                 max_reconnect_attempts, reconnection_in_progress, threads_lock,
                 tcp_thread, virtual_thread, virtual_device, master_fd, exc,
                 server_up, connect_calls>>

(***************************************************************************)
(* _handle_connection_loss and the reconnect sequence, run by the relay    *)
(* thread that detected the loss.                                          *)
(***************************************************************************)

\* _handle_connection_loss: if not self.running: return
HclCheckRunning(t) ==
  /\ pc[t] = "hcl"
  /\ Goto(t, IF running THEN "hcl_lock" ELSE AfterHcl(t))
  /\ UNCHANGED nonclient_vars
  /\ UNCHANGED stop_vars
  /\ UNCHANGED <<main_pc, running, shutdown_event, tcp_socket, reconnect_attempts,
                 max_reconnect_attempts, reconnection_in_progress, threads_lock,
                 tcp_thread, virtual_thread, virtual_device, master_fd, ret, exc,
                 server_up, connect_calls>>

\* mutant of HclMustSkip: the flag is not consulted
HclMustSkip_NoGuard == FALSE

\* the guard of _handle_connection_loss, evaluated under reconnection_lock:
\* TRUE when this caller must skip because a sequence is in progress
HclMustSkip == reconnection_in_progress

\* _handle_connection_loss: with self.reconnection_lock:
\*     if self.reconnection_in_progress: return
\*     self.reconnection_in_progress = True
HclLock(t) ==
  /\ pc[t] = "hcl_lock"
  /\ IF HclMustSkip
       THEN /\ Goto(t, "hcl_skip")
            /\ UNCHANGED reconnection_in_progress
       ELSE /\ Goto(t, "rec_inc")
            /\ reconnection_in_progress' = TRUE
  /\ UNCHANGED nonclient_vars
  /\ UNCHANGED stop_vars
  /\ UNCHANGED <<main_pc, running, shutdown_event, tcp_socket, reconnect_attempts,
                 max_reconnect_attempts, threads_lock,
                 tcp_thread, virtual_thread, virtual_device, master_fd, ret, exc,
                 server_up, connect_calls>>

\* _handle_connection_loss: "Reconnection already in progress, skipping"; return
HclSkip(t) ==
  /\ pc[t] = "hcl_skip"
  /\ Goto(t, AfterHcl(t))
  /\ UNCHANGED nonclient_vars
  /\ UNCHANGED stop_vars
  /\ UNCHANGED <<main_pc, running, shutdown_event, tcp_socket, reconnect_attempts,
                 max_reconnect_attempts, reconnection_in_progress, threads_lock,
                 tcp_thread, virtual_thread, virtual_device, master_fd, ret, exc,
                 server_up, connect_calls>>

\* _do_reconnection: self.reconnect_attempts += 1
DoReconnectionIncrement(t) ==
  /\ pc[t] = "rec_inc"
  /\ reconnect_attempts' = reconnect_attempts + 1
  /\ Goto(t, "rec_chk")
  /\ UNCHANGED nonclient_vars
  /\ UNCHANGED stop_vars
  /\ UNCHANGED <<main_pc, running, shutdown_event, tcp_socket,
                 max_reconnect_attempts, reconnection_in_progress, threads_lock,
                 tcp_thread, virtual_thread, virtual_device, master_fd, ret, exc,
                 server_up, connect_calls>>

\* mutant of WithinLimit: the limit is never enforced
WithinLimit_NoLimit(n) == TRUE

\* mutant of WithinLimit: one attempt too many
WithinLimit_OffByOne(n) == n <= max_reconnect_attempts + 1

\* _do_reconnection: if self.reconnect_attempts <= self.max_reconnect_attempts
WithinLimit(n) == n <= max_reconnect_attempts

\* _do_reconnection:
\*   if self.reconnect_attempts <= self.max_reconnect_attempts: ... wait ...
\*   else: self.running = False
DoReconnectionCheck(t) ==
  /\ pc[t] = "rec_chk"
  /\ IF WithinLimit(reconnect_attempts)
       THEN /\ Goto(t, "rec_wait")
            /\ UNCHANGED running
       ELSE /\ Goto(t, "hcl_fin")
            /\ running' = FALSE
  /\ UNCHANGED nonclient_vars
  /\ UNCHANGED stop_vars
  /\ UNCHANGED <<main_pc, shutdown_event, tcp_socket, reconnect_attempts,
                 max_reconnect_attempts, reconnection_in_progress, threads_lock,
                 tcp_thread, virtual_thread, virtual_device, master_fd, ret, exc,
                 server_up, connect_calls>>

\* mutant of WaitInterrupted: a blind sleep
WaitInterrupted_BlindSleep == FALSE

\* threading.Event.wait(delay): True as soon as the event is set, False when
\* the delay expired with the event not set
WaitInterrupted == shutdown_event

\* _do_reconnection: if self.shutdown_event.wait(delay): return
\* (else the delay expired and connect_to_server() is called next)
BackoffWait(t) ==
  /\ pc[t] = "rec_wait"
  /\ Goto(t, IF WaitInterrupted THEN "hcl_fin" ELSE "conn_close_old")
  /\ UNCHANGED nonclient_vars
  /\ UNCHANGED stop_vars
  /\ UNCHANGED <<main_pc, running, shutdown_event, tcp_socket, reconnect_attempts,
                 max_reconnect_attempts, reconnection_in_progress, threads_lock,
                 tcp_thread, virtual_thread, virtual_device, master_fd, ret, exc,
                 server_up, connect_calls>>

\* connect_to_server (called by _do_reconnection): if self.tcp_socket: close()
ConnectCloseOld(t) ==
  /\ pc[t] = "conn_close_old"
  /\ tcp_socket' = IF tcp_socket = "None" THEN "None" ELSE "closed"
  /\ connect_calls' = connect_calls + 1
  /\ Goto(t, "conn_new")
  /\ UNCHANGED nonclient_vars
  /\ UNCHANGED stop_vars
  /\ UNCHANGED <<main_pc, running, shutdown_event, reconnect_attempts,
                 max_reconnect_attempts, reconnection_in_progress, threads_lock,
                 tcp_thread, virtual_thread, virtual_device, master_fd, ret, exc,
                 server_up>>

\* connect_to_server: self.tcp_socket = socket.socket(...); settimeout; setsockopt
ConnectNewSocket(t) ==
  /\ pc[t] = "conn_new"
  /\ tcp_socket' = "created"
  /\ Goto(t, "conn_connect")
  /\ UNCHANGED nonclient_vars
  /\ UNCHANGED stop_vars
  /\ UNCHANGED <<main_pc, running, shutdown_event, reconnect_attempts,
                 max_reconnect_attempts, reconnection_in_progress, threads_lock,
                 tcp_thread, virtual_thread, virtual_device, master_fd, ret, exc,
                 server_up, connect_calls>>

\* connect_to_server: self.tcp_socket.connect((host, port))
\*   success: with self.reconnection_lock: self.reconnect_attempts = 0; return True
\*   failure (also when stop() closed or cleared the socket meanwhile):
\*     if self.tcp_socket: close(); self.tcp_socket = None; return False
ConnectSocket(t) ==
  /\ pc[t] = "conn_connect"
  /\ \E ok \in BOOLEAN :
       /\ ok => (server_up /\ tcp_socket = "created")
       /\ IF ok
            THEN /\ tcp_socket' = "connected"
                 /\ reconnect_attempts' = AttemptsAfterConnect(reconnect_attempts)
                 /\ connect_calls' = 0
                 /\ reconnected' = TRUE
                 /\ Goto(t, "rec_verify")
            ELSE /\ tcp_socket' = SocketAfterFailure(tcp_socket)
                 /\ UNCHANGED <<reconnect_attempts, connect_calls, reconnected>>
                 /\ Goto(t, "hcl_fin")
  /\ UNCHANGED otherparts_vars
  /\ UNCHANGED <<rx_count, held, forwarded, rx_epoch, tx_count, sent>>
  /\ UNCHANGED stop_vars
  /\ UNCHANGED <<main_pc, running, shutdown_event,
                 max_reconnect_attempts, reconnection_in_progress, threads_lock,
                 tcp_thread, virtual_thread, virtual_device, master_fd, ret, exc,
                 server_up>>

\* a probe that finds every device valid
VerifyVirtualDevice_AlwaysValid == TRUE

\* _verify_virtual_device: the device object exists, master_fd is not None and
\* fcntl(master_fd, F_GETFD) does not raise
VerifyVirtualDevice == virtual_device /\ master_fd = "open"

\* _do_reconnection after a successful connect:
\*   if not self._verify_virtual_device(): self.running = False; return
\*   self._restart_data_threads()
VerifyStep(t) ==
  /\ pc[t] = "rec_verify"
  /\ IF VerifyVirtualDevice
       THEN /\ Goto(t, "restart")
            /\ UNCHANGED running
       ELSE /\ Goto(t, "hcl_fin")
            /\ running' = FALSE
  /\ UNCHANGED nonclient_vars
  /\ UNCHANGED stop_vars
  /\ UNCHANGED <<main_pc, shutdown_event, tcp_socket, reconnect_attempts,
                 max_reconnect_attempts, reconnection_in_progress, threads_lock,
                 tcp_thread, virtual_thread, virtual_device, master_fd, ret, exc,
                 server_up, connect_calls>>

(***************************************************************************)
(* _restart_data_threads, run by the thread that ran the sequence.         *)
(***************************************************************************)

\* threading.Thread.is_alive()
IsAlive(t) == t # 0 /\ pc[t] \notin {"unborn", "done"}

\* a join that waits for the caller itself until the timeout and returns
JoinRaises_Never(t, j) == FALSE

\* threading.Thread.join(timeout) called by thread t on thread j:
\* RuntimeError("cannot join current thread") when j is the caller itself;
\* otherwise it returns when j has ended or the timeout expired.
JoinRaises(t, j) == j = t

\* _restart_data_threads: with self.threads_lock (acquire)
RestartLock(t) ==
  /\ pc[t] = "restart"
  /\ threads_lock = 0
  /\ threads_lock' = t
  /\ Goto(t, "rs_join_tcp")
  /\ UNCHANGED nonclient_vars
  /\ UNCHANGED stop_vars
  /\ UNCHANGED <<main_pc, running, shutdown_event, tcp_socket, reconnect_attempts,
                 max_reconnect_attempts, reconnection_in_progress,
                 tcp_thread, virtual_thread, virtual_device, master_fd, ret, exc,
                 server_up, connect_calls>>

\* _restart_data_threads:
\*   if self.tcp_thread and self.tcp_thread.is_alive(): self.tcp_thread.join(timeout=2.0)
RestartJoinTcp(t) ==
  /\ pc[t] = "rs_join_tcp"
  /\ IF IsAlive(tcp_thread) /\ JoinRaises(t, tcp_thread)
       THEN /\ exc' = [exc EXCEPT ![t] = TRUE]
            /\ Goto(t, "rs_unlock")
       ELSE /\ UNCHANGED exc
            /\ Goto(t, "rs_join_virt")
  /\ UNCHANGED nonclient_vars
  /\ UNCHANGED stop_vars
  /\ UNCHANGED <<main_pc, running, shutdown_event, tcp_socket, reconnect_attempts,
                 max_reconnect_attempts, reconnection_in_progress, threads_lock,
                 tcp_thread, virtual_thread, virtual_device, master_fd, ret,
                 server_up, connect_calls>>

\* _restart_data_threads:
\*   if self.virtual_thread and self.virtual_thread.is_alive(): join(timeout=2.0)
\*   self.tcp_thread = Thread(target=self.tcp_to_virtual_thread); start()
\*   self.virtual_thread = Thread(target=self.virtual_to_tcp_thread); start()
RestartJoinVirtAndStart(t) ==
  /\ pc[t] = "rs_join_virt"
  /\ IF IsAlive(virtual_thread) /\ JoinRaises(t, virtual_thread)
       THEN /\ exc' = [exc EXCEPT ![t] = TRUE]
            /\ Goto(t, "rs_unlock")
            /\ UNCHANGED <<tcp_thread, virtual_thread>>
       ELSE /\ tcp_thread + 2 \in Threads
            /\ virtual_thread + 2 \in Threads
            /\ tcp_thread' = tcp_thread + 2
            /\ virtual_thread' = virtual_thread + 2
            /\ pc' = [pc EXCEPT ![t] = "rs_unlock",
                                ![tcp_thread + 2] = "loop",
                                ![virtual_thread + 2] = "loop"]
            /\ UNCHANGED exc
  /\ UNCHANGED nonclient_vars
  /\ UNCHANGED stop_vars
  /\ UNCHANGED <<main_pc, running, shutdown_event, tcp_socket, reconnect_attempts,
                 max_reconnect_attempts, reconnection_in_progress, threads_lock,
                 virtual_device, master_fd, ret,
                 server_up, connect_calls>>

\* _restart_data_threads: leaving "with self.threads_lock" (normally or by the exception)
RestartUnlock(t) ==
  /\ pc[t] = "rs_unlock"
  /\ threads_lock' = 0
  /\ Goto(t, "hcl_fin")
  /\ UNCHANGED nonclient_vars
  /\ UNCHANGED stop_vars
  /\ UNCHANGED <<main_pc, running, shutdown_event, tcp_socket, reconnect_attempts,
                 max_reconnect_attempts, reconnection_in_progress,
                 tcp_thread, virtual_thread, virtual_device, master_fd, ret, exc,
                 server_up, connect_calls>>

\* _handle_connection_loss: finally: with self.reconnection_lock:
\*     self.reconnection_in_progress = False
\* then the return to the relay loop (continue / break), or, when an exception
\* is propagating, the loop's "except Exception: ... break".
HclFinally(t) ==
  /\ pc[t] = "hcl_fin"
  /\ reconnection_in_progress' = FALSE
  /\ Goto(t, IF exc[t] THEN "done" ELSE AfterHcl(t))
  /\ UNCHANGED nonclient_vars
  /\ UNCHANGED stop_vars
  /\ UNCHANGED <<main_pc, running, shutdown_event, tcp_socket, reconnect_attempts,
                 max_reconnect_attempts, threads_lock,
                 tcp_thread, virtual_thread, virtual_device, master_fd, ret, exc,
                 server_up, connect_calls>>

\* one step of relay thread t
TcpLoopStep(t) ==
  \/ TcpCheckSocket(t)
  \/ TcpSelect(t)
  \/ TcpRecv(t)
  \/ TcpRecvEmpty(t)
  \/ TcpWrite(t)

VirtLoopStep(t) ==
  \/ VirtSelect(t)
  \/ VirtRead(t)
  \/ VirtCheckSocket(t)
  \/ VirtSendall(t)

ReconnectStep(t) ==
  \/ HclCheckRunning(t)
  \/ HclLock(t)
  \/ HclSkip(t)
  \/ DoReconnectionIncrement(t)
  \/ DoReconnectionCheck(t)
  \/ BackoffWait(t)
  \/ ConnectCloseOld(t)
  \/ ConnectNewSocket(t)
  \/ ConnectSocket(t)
  \/ VerifyStep(t)
  \/ RestartLock(t)
  \/ RestartJoinTcp(t)
  \/ RestartJoinVirtAndStart(t)
  \/ RestartUnlock(t)
  \/ HclFinally(t)

ThreadStep(t) ==
  LoopHead(t) \/ TcpLoopStep(t) \/ VirtLoopStep(t) \/ DeviceError(t) \/ ReconnectStep(t)

MainStep ==
  \/ StartDevice
  \/ StartConnect
  \/ StartFailed
  \/ StartThreads
  \/ StopRequest
  \/ StopRunning
  \/ StopEvent
  \/ StopLock
  \/ StopJoin
  \/ StopSocketClose
  \/ StopSocketNone
  \/ StopDeviceClose
  \/ StopDeviceFdNone
  \/ StopDeviceNone

ClientNext == MainStep \/ ServerDown \/ \E t \in Threads : (ThreadStep(t) \/ DeviceRead(t))

(***************************************************************************)
(* Part II.  The backoff delay of _do_reconnection, as a function of the   *)
(* attribute reconnect_delay and of the attempt number, applied by a       *)
(* caller whose connects keep failing (the attempt number grows by one per *)
(* sequence).  Times are whole time units.                                 *)
(***************************************************************************)
\* largest reconnect_delay explored
MaxBackoffBase == 16
\* largest attempt number explored
MaxBackoffN == 7

\* the ceiling of the delay: the literal 30 in min(..., 30)
BackoffCap == 30

Min(a, b) == IF a <= b THEN a ELSE b

\* mutant of BackoffDelay: the exponent is the attempt number itself
BackoffDelay_ExponentN(base, n) == Min(base * 2 ^ n, BackoffCap)

\* delay = min(self.reconnect_delay * (2 ** (self.reconnect_attempts - 1)), 30)
BackoffDelay(base, n) == Min(base * 2 ^ (n - 1), BackoffCap)

BackoffInit ==
  /\ bk_reconnect_delay \in 1..MaxBackoffBase
  /\ bk_attempts = 0
  /\ bk_delay = 0
  /\ bk_prev_delay = 0

\* the state of the backoff part while the client of Part I is explored:
\* the default reconnect_delay, no sequence run
BackoffIdle ==
  /\ bk_reconnect_delay = 1
  /\ bk_attempts = 0
  /\ bk_delay = 0
  /\ bk_prev_delay = 0

\* _do_reconnection up to the wait: self.reconnect_attempts += 1;
\* delay = min(...); self.shutdown_event.wait(delay)
BackoffSequence ==
  /\ UNCHANGED <<client_vars, server_vars, device_vars, validate_vars, relay_vars, lock_vars>>
  /\ bk_attempts < MaxBackoffN
  /\ bk_attempts' = bk_attempts + 1
  /\ bk_delay' = BackoffDelay(bk_reconnect_delay, bk_attempts + 1)
  /\ bk_prev_delay' = bk_delay
  /\ UNCHANGED bk_reconnect_delay

(***************************************************************************)
(* Part III.  SerialToNetworkBridge (src/serial_tcp_server.py).            *)
(* Connections are numbered in the order accept() returns them.  A block   *)
(* "with self.clients_lock" is one step: the lock makes it atomic with     *)
(* respect to every other access to self.clients.                          *)
(***************************************************************************)
\* how many connections the peers open in one run
MaxConns == 2
\* largest value of the attribute max_clients that is explored
MaxClientLimit == 2

Conns == 1..MaxConns

\* list helpers
InList(x, l) == \E i \in 1..Len(l) : l[i] = x
\* list.remove(x): the first occurrence is removed
RemoveFirst(x, l) ==
  LET i == CHOOSE k \in 1..Len(l) : l[k] = x /\ \A j \in 1..(k - 1) : l[j] # x
  IN  SubSeq(l, 1, i - 1) \o SubSeq(l, i + 1, Len(l))

\* SerialToNetworkBridge.__init__
ServerInit ==
  /\ srv_main_pc = "start_serial"
  /\ srv_running = FALSE
  /\ srv_shutdown_event = FALSE
  /\ server_socket = "None"
  /\ serial_conn = "None"
  /\ max_clients \in 1..MaxClientLimit
  /\ clients = <<>>
  /\ client_threads = <<>>
  /\ sock = [c \in Conns |-> "none"]
  /\ accept_pc = "unborn"
  /\ accepted = 0
  /\ handler_pc = [c \in Conns |-> "unborn"]
  /\ srv_stops_done = 0
  /\ serial_pc = "unborn"
  /\ clients_copy = <<>>
  /\ send_i = 0
  /\ disconnected_clients = <<>>
  /\ delivered = {}

\* start(): if not self.setup_serial(): return False
SrvStartSerial ==
  /\ srv_main_pc = "start_serial"
  /\ \E ok \in BOOLEAN :
       /\ serial_conn' = IF ok THEN "open" ELSE "None"
       /\ srv_main_pc' = IF ok THEN "start_network" ELSE "returned_false"
  /\ UNCHANGED nonserver_vars
  /\ UNCHANGED srv_stops_done
  /\ UNCHANGED serial_vars
  /\ UNCHANGED <<srv_running, srv_shutdown_event, server_socket, max_clients, clients,
                 client_threads, sock, accept_pc, accepted, handler_pc>>

\* start(): if not self.setup_network(): return False
\* (socket(), bind, listen; when bind or listen raises, server_socket keeps the
\* open socket that was assigned)
SrvStartNetwork ==
  /\ srv_main_pc = "start_network"
  /\ \E ok \in BOOLEAN :
       /\ server_socket' = IF ok THEN "listening" ELSE "created"
       /\ srv_main_pc' = IF ok THEN "start_run" ELSE "returned_false"
  /\ UNCHANGED nonserver_vars
  /\ UNCHANGED srv_stops_done
  /\ UNCHANGED serial_vars
  /\ UNCHANGED <<srv_running, srv_shutdown_event, serial_conn, max_clients, clients,
                 client_threads, sock, accept_pc, accepted, handler_pc>>

\* start(): self.running = True; the serial thread and the accept thread start
SrvStartThreads ==
  /\ srv_main_pc = "start_run"
  /\ srv_running' = TRUE
  /\ serial_pc' = "loop"
  /\ accept_pc' = "loop"
  /\ srv_main_pc' = "idle"
  /\ UNCHANGED nonserver_vars
  /\ UNCHANGED srv_stops_done
  /\ UNCHANGED <<clients_copy, send_i, disconnected_clients, delivered>>
  /\ UNCHANGED <<srv_shutdown_event, server_socket, serial_conn, max_clients, clients,
                 client_threads, sock, accepted, handler_pc>>

\* main(): a signal or KeyboardInterrupt, or start() returned False: stop() is
\* entered; after stop() has returned, the caller of the object calls it again
SrvStopRequest ==
  /\ srv_main_pc \in {"idle", "returned_false", "stopped"}
  /\ srv_stops_done < MaxStopCalls
  /\ srv_main_pc' = "stop_run"
  /\ UNCHANGED nonserver_vars
  /\ UNCHANGED srv_stops_done
  /\ UNCHANGED serial_vars
  /\ UNCHANGED <<srv_running, srv_shutdown_event, server_socket, serial_conn, max_clients,
                 clients, client_threads, sock, accept_pc, accepted, handler_pc>>

\* stop(): self.running = False
SrvStopRunning ==
  /\ srv_main_pc = "stop_run"
  /\ srv_running' = FALSE
  /\ srv_main_pc' = "stop_event"
  /\ UNCHANGED nonserver_vars
  /\ UNCHANGED srv_stops_done
  /\ UNCHANGED serial_vars
  /\ UNCHANGED <<srv_shutdown_event, server_socket, serial_conn, max_clients,
                 clients, client_threads, sock, accept_pc, accepted, handler_pc>>

\* stop(): self.shutdown_event.set()
SrvStopEvent ==
  /\ srv_main_pc = "stop_event"
  /\ srv_shutdown_event' = TRUE
  /\ srv_main_pc' = "stop_server_socket"
  /\ UNCHANGED nonserver_vars
  /\ UNCHANGED srv_stops_done
  /\ UNCHANGED serial_vars
  /\ UNCHANGED <<srv_running, server_socket, serial_conn, max_clients,
                 clients, client_threads, sock, accept_pc, accepted, handler_pc>>

\* stop(): if self.server_socket: close(); finally: self.server_socket = None
SrvStopServerSocket ==
  /\ srv_main_pc = "stop_server_socket"
  /\ server_socket' = "None"
  /\ srv_main_pc' = "stop_clients"
  /\ UNCHANGED nonserver_vars
  /\ UNCHANGED srv_stops_done
  /\ UNCHANGED serial_vars
  /\ UNCHANGED <<srv_running, srv_shutdown_event, serial_conn, max_clients,
                 clients, client_threads, sock, accept_pc, accepted, handler_pc>>

\* stop(): with self.clients_lock:
\*     for client in self.clients.copy(): client.close()
\*     self.clients.clear()
SrvStopClients ==
  /\ srv_main_pc = "stop_clients"
  /\ sock' = [c \in Conns |-> IF InList(c, clients) THEN "closed" ELSE sock[c]]
  /\ clients' = <<>>
  /\ srv_main_pc' = "stop_join"
  /\ UNCHANGED nonserver_vars
  /\ UNCHANGED srv_stops_done
  /\ UNCHANGED serial_vars
  /\ UNCHANGED <<srv_running, srv_shutdown_event, server_socket, serial_conn, max_clients,
                 client_threads, accept_pc, accepted, handler_pc>>

\* threading.Thread.is_alive(): started and not yet ended
HandlerAlive(c) == handler_pc[c] \notin {"unborn", "created", "done", "raised"}

\* stop(): for thread in self.client_threads:
\*             if thread.is_alive(): thread.join(timeout=2.0)
\* A join returns when its thread has ended or when the 2 s have expired; a
\* thread that is in the list but not started yet is not alive and is skipped.
SrvStopJoin ==
  /\ srv_main_pc = "stop_join"
  /\ \E timeout \in BOOLEAN :
       ~timeout => \A i \in 1..Len(client_threads) : ~HandlerAlive(client_threads[i])
  /\ srv_main_pc' = "stop_serial"
  /\ UNCHANGED nonserver_vars
  /\ UNCHANGED srv_stops_done
  /\ UNCHANGED serial_vars
  /\ UNCHANGED <<srv_running, srv_shutdown_event, server_socket, serial_conn, max_clients,
                 clients, client_threads, sock, accept_pc, accepted, handler_pc>>

\* stop(): if self.serial_conn and self.serial_conn.is_open: close();
\*         finally: self.serial_conn = None
SrvStopSerial ==
  /\ srv_main_pc = "stop_serial"
  /\ serial_conn' = IF serial_conn = "open" THEN "None" ELSE serial_conn
  /\ srv_main_pc' = "stopped"
  /\ srv_stops_done' = srv_stops_done + 1
  /\ UNCHANGED nonserver_vars
  /\ UNCHANGED serial_vars
  /\ UNCHANGED <<srv_running, srv_shutdown_event, server_socket, max_clients,
                 clients, client_threads, sock, accept_pc, accepted, handler_pc>>

\* accept_connections_thread: while self.running
AcceptLoopHead ==
  /\ accept_pc = "loop"
  /\ accept_pc' = IF srv_running THEN "accept" ELSE "done"
  /\ UNCHANGED nonserver_vars
  /\ UNCHANGED srv_stops_done
  /\ UNCHANGED serial_vars
  /\ UNCHANGED <<srv_main_pc, srv_running, srv_shutdown_event, server_socket, serial_conn,
                 max_clients, clients, client_threads, sock, accepted, handler_pc>>

\* accept_connections_thread:
\*   self.server_socket.settimeout(1.0); client_socket, addr = self.server_socket.accept()
\*   server_socket None or closed -> exception: break
\*   otherwise socket.timeout -> continue, or a connection is returned
AcceptConnection ==
  /\ accept_pc = "accept"
  /\ IF server_socket # "listening"
       THEN /\ accept_pc' = "done"
            /\ UNCHANGED <<accepted, sock>>
       ELSE \/ /\ accept_pc' = "loop"
               /\ UNCHANGED <<accepted, sock>>
            \/ \E c \in Conns :
                 /\ sock[c] = "none"
                 /\ \A d \in Conns : d < c => sock[d] # "none"
                 /\ sock' = [sock EXCEPT ![c] = "open"]
                 /\ accepted' = c
                 /\ accept_pc' = "spawn"
  /\ UNCHANGED nonserver_vars
  /\ UNCHANGED srv_stops_done
  /\ UNCHANGED serial_vars
  /\ UNCHANGED <<srv_main_pc, srv_running, srv_shutdown_event, server_socket, serial_conn,
                 max_clients, clients, client_threads, handler_pc>>

\* accept_connections_thread: client_thread = threading.Thread(target=self.handle_client, ...)
\*   self.client_threads.append(client_thread)
AcceptSpawn ==
  /\ accept_pc = "spawn"
  /\ client_threads' = Append(client_threads, accepted)
  /\ handler_pc' = [handler_pc EXCEPT ![accepted] = "created"]
  /\ accept_pc' = "start"
  /\ UNCHANGED nonserver_vars
  /\ UNCHANGED srv_stops_done
  /\ UNCHANGED serial_vars
  /\ UNCHANGED <<srv_main_pc, srv_running, srv_shutdown_event, server_socket, serial_conn,
                 max_clients, clients, sock, accepted>>

\* accept_connections_thread: client_thread.start()
AcceptStart ==
  /\ accept_pc = "start"
  /\ handler_pc' = [handler_pc EXCEPT ![accepted] = "limit"]
  /\ accepted' = 0
  /\ accept_pc' = "loop"
  /\ UNCHANGED nonserver_vars
  /\ UNCHANGED srv_stops_done
  /\ UNCHANGED serial_vars
  /\ UNCHANGED <<srv_main_pc, srv_running, srv_shutdown_event, server_socket, serial_conn,
                 max_clients, clients, client_threads, sock>>

\* a wrong test of the limit: one peer too many is let in
LimitReached_OffByOne == Len(clients) > max_clients

\* the test of handle_client under clients_lock:
\* if len(self.clients) >= self.max_clients: reject
LimitReached == Len(clients) >= max_clients

\* handle_client: with self.clients_lock:
\*     if len(self.clients) >= self.max_clients: client_socket.close(); return
\*     self.clients.append(client_socket)
\* (the return at the limit runs the finally clause: position "limit_return")
HandlerRegister(c) ==
  /\ handler_pc[c] = "limit"
  /\ IF LimitReached
       THEN /\ sock' = [sock EXCEPT ![c] = "closed"]
            /\ handler_pc' = [handler_pc EXCEPT ![c] = "limit_return"]
            /\ UNCHANGED clients
       ELSE /\ clients' = Append(clients, c)
            /\ handler_pc' = [handler_pc EXCEPT ![c] = "welcome"]
            /\ UNCHANGED sock
  /\ UNCHANGED nonserver_vars
  /\ UNCHANGED srv_stops_done
  /\ UNCHANGED serial_vars
  /\ UNCHANGED <<srv_main_pc, srv_running, srv_shutdown_event, server_socket, serial_conn,
                 max_clients, client_threads, accept_pc, accepted>>

\* handle_client: client_socket.send(welcome_msg.encode())
\*   socket.error / OSError (always when the socket was closed): return
HandlerWelcome(c) ==
  /\ handler_pc[c] = "welcome"
  /\ \E ok \in BOOLEAN :
       /\ ok => sock[c] = "open"
       /\ handler_pc' = [handler_pc EXCEPT ![c] = IF ok THEN "loop" ELSE "fin_remove"]
  /\ UNCHANGED nonserver_vars
  /\ UNCHANGED srv_stops_done
  /\ UNCHANGED serial_vars
  /\ UNCHANGED <<srv_main_pc, srv_running, srv_shutdown_event, server_socket, serial_conn,
                 max_clients, clients, client_threads, sock, accept_pc, accepted>>

\* handle_client: while self.running
HandlerLoopHead(c) ==
  /\ handler_pc[c] = "loop"
  /\ handler_pc' = [handler_pc EXCEPT ![c] = IF srv_running THEN "select" ELSE "fin_remove"]
  /\ UNCHANGED nonserver_vars
  /\ UNCHANGED srv_stops_done
  /\ UNCHANGED serial_vars
  /\ UNCHANGED <<srv_main_pc, srv_running, srv_shutdown_event, server_socket, serial_conn,
                 max_clients, clients, client_threads, sock, accept_pc, accepted>>

\* handle_client: ready = select.select([client_socket], [], [], 0.5)
\*   closed socket -> ValueError, "except Exception": break
\*   otherwise timeout (next iteration), readable, or an error: break
HandlerSelect(c) ==
  /\ handler_pc[c] = "select"
  /\ \E r \in {"timeout", "ready", "error"} :
       handler_pc' = [handler_pc EXCEPT ![c] =
                        CASE sock[c] # "open" -> "fin_remove"
                          [] r = "timeout"    -> "loop"
                          [] r = "ready"      -> "recv"
                          [] OTHER            -> "fin_remove"]
  /\ UNCHANGED nonserver_vars
  /\ UNCHANGED srv_stops_done
  /\ UNCHANGED serial_vars
  /\ UNCHANGED <<srv_main_pc, srv_running, srv_shutdown_event, server_socket, serial_conn,
                 max_clients, clients, client_threads, sock, accept_pc, accepted>>

\* handle_client: data = client_socket.recv(1024)
\*   b'' -> break;  socket.error (always when the socket was closed) -> break
\*   data -> written to the serial port when it is open (a SerialException is
\*           logged), next iteration
HandlerRecv(c) ==
  /\ handler_pc[c] = "recv"
  /\ \E r \in {"data", "empty", "error"} :
       handler_pc' = [handler_pc EXCEPT ![c] =
                        CASE sock[c] = "open" /\ r = "data"  -> "loop"
                          [] sock[c] = "open" /\ r = "empty" -> "recv_empty"
                          [] OTHER                            -> "fin_remove"]
  /\ UNCHANGED nonserver_vars
  /\ UNCHANGED srv_stops_done
  /\ UNCHANGED serial_vars
  /\ UNCHANGED <<srv_main_pc, srv_running, srv_shutdown_event, server_socket, serial_conn,
                 max_clients, clients, client_threads, sock, accept_pc, accepted>>

\* handle_client, recv returned b'': if not data: break
\* (the write to the serial port is not reached)
HandlerRecvEmpty(c) ==
  /\ handler_pc[c] = "recv_empty"
  /\ handler_pc' = [handler_pc EXCEPT ![c] = "fin_remove"]
  /\ UNCHANGED nonserver_vars
  /\ UNCHANGED srv_stops_done
  /\ UNCHANGED serial_vars
  /\ UNCHANGED <<srv_main_pc, srv_running, srv_shutdown_event, server_socket, serial_conn,
                 max_clients, clients, client_threads, sock, accept_pc, accepted>>

\* a finally clause that removes without looking
RemoveAttempted_Unchecked(c, l) == TRUE

\* handle_client, finally: "if client_socket in self.clients"
RemoveAttempted(c, l) == InList(c, l)

\* handle_client, finally: with self.clients_lock:
\*     if client_socket in self.clients: self.clients.remove(client_socket)
\* list.remove of an absent element raises ValueError, which would leave the
\* finally clause before the close ("raised")
HandlerFinallyRemove(c) ==
  /\ handler_pc[c] \in {"fin_remove", "limit_return"}
  /\ clients' = IF InList(c, clients) /\ RemoveAttempted(c, clients)
                 THEN RemoveFirst(c, clients) ELSE clients
  /\ handler_pc' = [handler_pc EXCEPT ![c] =
                      IF RemoveAttempted(c, clients) /\ ~InList(c, clients)
                        THEN "raised" ELSE "fin_close"]
  /\ UNCHANGED nonserver_vars
  /\ UNCHANGED srv_stops_done
  /\ UNCHANGED serial_vars
  /\ UNCHANGED <<srv_main_pc, srv_running, srv_shutdown_event, server_socket, serial_conn,
                 max_clients, client_threads, sock, accept_pc, accepted>>

\* handle_client, finally: client_socket.close()
HandlerFinallyClose(c) ==
  /\ handler_pc[c] = "fin_close"
  /\ sock' = [sock EXCEPT ![c] = "closed"]
  /\ handler_pc' = [handler_pc EXCEPT ![c] = "done"]
  /\ UNCHANGED nonserver_vars
  /\ UNCHANGED srv_stops_done
  /\ UNCHANGED serial_vars
  /\ UNCHANGED <<srv_main_pc, srv_running, srv_shutdown_event, server_socket, serial_conn,
                 max_clients, clients, client_threads, accept_pc, accepted>>

\* the frame of a step of serial_to_network_thread that touches only its locals
SerialFrame ==
  /\ UNCHANGED nonserver_vars
  /\ UNCHANGED srv_stops_done
  /\ UNCHANGED <<srv_main_pc, srv_running, srv_shutdown_event, server_socket, serial_conn,
                 max_clients, client_threads, accept_pc, accepted, handler_pc>>

\* serial_to_network_thread: while self.running and not self.shutdown_event.is_set()
\* (the locals of the iteration that ended are dead: they are dropped here)
SerialLoopHead ==
  /\ serial_pc = "loop"
  /\ serial_pc' = IF srv_running /\ ~srv_shutdown_event THEN "read" ELSE "done"
  /\ clients_copy' = <<>>
  /\ send_i' = 0
  /\ disconnected_clients' = <<>>
  /\ delivered' = {}
  /\ SerialFrame
  /\ UNCHANGED <<clients, sock>>

\* serial_to_network_thread:
\*   if self.serial_conn and self.serial_conn.is_open:
\*       if self.serial_conn.in_waiting > 0: data = self.serial_conn.read(...)
\*   nothing to read, an empty read, a SerialException or any other exception:
\*   sleep, next iteration;  data: the broadcast follows
SerialRead ==
  /\ serial_pc = "read"
  /\ \E data \in BOOLEAN :
       /\ data => serial_conn = "open"
       /\ serial_pc' = IF data THEN "snapshot" ELSE "loop"
  /\ SerialFrame
  /\ UNCHANGED <<clients, sock, clients_copy, send_i, disconnected_clients, delivered>>

\* serial_to_network_thread: disconnected_clients = []
\*   with self.clients_lock: clients_copy = self.clients.copy()
SerialSnapshot ==
  /\ serial_pc = "snapshot"
  /\ clients_copy' = clients
  /\ disconnected_clients' = <<>>
  /\ delivered' = {}
  /\ send_i' = 1
  /\ serial_pc' = "send"
  /\ SerialFrame
  /\ UNCHANGED <<clients, sock>>

\* a wrong for loop: the first failed send ends the broadcast
NextPeer_AbortOnFailure(i, ok) == IF ok THEN i + 1 ELSE Len(clients_copy) + 1

\* serial_to_network_thread: for client in clients_copy: the peer that follows
\* the one at place i, whether its send returned or raised
NextPeer(i, ok) == i + 1

\* serial_to_network_thread: for client in clients_copy:
\*     try: client.send(data)
\*     except (socket.error, OSError) / except Exception: disconnected_clients.append(client)
\*   a send on a closed socket always raises
SerialSend ==
  /\ serial_pc = "send"
  /\ send_i <= Len(clients_copy)
  /\ LET c == clients_copy[send_i] IN
       \E ok \in BOOLEAN :
         /\ ok => sock[c] = "open"
         /\ delivered' = IF ok THEN delivered \cup {c} ELSE delivered
         /\ disconnected_clients' =
              IF ok THEN disconnected_clients ELSE Append(disconnected_clients, c)
         /\ send_i' = NextPeer(send_i, ok)
  /\ SerialFrame
  /\ UNCHANGED <<clients, sock, serial_pc, clients_copy>>

\* serial_to_network_thread: the for loop is over; if disconnected_clients: ...
SerialSendDone ==
  /\ serial_pc = "send"
  /\ send_i > Len(clients_copy)
  /\ serial_pc' = IF disconnected_clients # <<>> THEN "remove" ELSE "loop"
  /\ SerialFrame
  /\ UNCHANGED <<clients, sock, clients_copy, send_i, disconnected_clients, delivered>>

\* list.remove for every member of a batch that is in the list
RemoveAll(batch, l) == SelectSeq(l, LAMBDA x : ~InList(x, batch))

\* serial_to_network_thread: with self.clients_lock:
\*     for client in disconnected_clients:
\*         if client in self.clients: self.clients.remove(client)
\*         client.close()
SerialRemove ==
  /\ serial_pc = "remove"
  /\ clients' = RemoveAll(disconnected_clients, clients)
  /\ sock' = [c \in Conns |-> IF InList(c, disconnected_clients) THEN "closed" ELSE sock[c]]
  /\ serial_pc' = "loop"
  /\ SerialFrame
  /\ UNCHANGED <<clients_copy, send_i, disconnected_clients, delivered>>

SerialStep ==
  \/ SerialLoopHead
  \/ SerialRead
  \/ SerialSnapshot
  \/ SerialSend
  \/ SerialSendDone
  \/ SerialRemove

HandlerStep(c) ==
  \/ HandlerRegister(c)
  \/ HandlerWelcome(c)
  \/ HandlerLoopHead(c)
  \/ HandlerSelect(c)
  \/ HandlerRecv(c)
  \/ HandlerRecvEmpty(c)
  \/ HandlerFinallyRemove(c)
  \/ HandlerFinallyClose(c)

AcceptStep ==
  \/ AcceptLoopHead
  \/ AcceptConnection
  \/ AcceptSpawn
  \/ AcceptStart

SrvMainStep ==
  \/ SrvStartSerial
  \/ SrvStartNetwork
  \/ SrvStartThreads
  \/ SrvStopRequest
  \/ SrvStopRunning
  \/ SrvStopEvent
  \/ SrvStopServerSocket
  \/ SrvStopClients
  \/ SrvStopJoin
  \/ SrvStopSerial

ServerNext == SrvMainStep \/ AcceptStep \/ SerialStep \/ \E c \in Conns : HandlerStep(c)

(***************************************************************************)
(* Part IV.  VirtualSerialDevice: the class of src/serial_tcp_client.py     *)
(* (create_virtual_device, close) and the class of                          *)
(* src/virtual_serial_echo.py (create_device, stop, cleanup), with the      *)
(* directory entries at device_path and at temp_link_path.  The entry at    *)
(* device_path is "absent", "file" (a regular file), "link_old" (a symbolic *)
(* link left by something else) or "link_slave" (a symbolic link to the     *)
(* slave name of this device).  The calls of os that the code guards with   *)
(* an except clause during creation may fail; the unlink and close calls    *)
(* of a teardown succeed.                                                   *)
(***************************************************************************)
PathStates == {"absent", "file", "link_old", "link_slave"}

\* VirtualSerialDevice.__init__ of either class, and the entry found at device_path
\* A creation passes the slave name of the open pseudo-terminal, which
\* exists; a direct call of _create_symlink_safely passes any target, to a
\* device path at which nothing is.
DeviceInit ==
  /\ dev_class \in {"client", "echo"}
  /\ dev_entry \in {"create", "symlink"}
  /\ dev_pc = IF dev_entry = "create" THEN "new" ELSE "symlink"
  /\ target_exists \in IF dev_entry = "create" THEN {TRUE} ELSE BOOLEAN
  /\ fs_initial \in IF dev_entry = "create" THEN {"absent", "file", "link_old"}
                                           ELSE {"absent"}
  /\ fs_path = fs_initial
  /\ fs_temp = "absent"
  /\ dev_master_fd = "None"
  /\ dev_slave_fd = "None"
  /\ temp_link_path = FALSE
  /\ device_created = FALSE
  /\ display_name = "none"
  /\ device_name = "none"
  /\ master_closes = 0
  /\ slave_closes = 0
  /\ unlinks = 0
  /\ teardowns = 0

\* the state of the device part while another part is explored
DeviceIdle ==
  /\ dev_class = "client"
  /\ dev_entry = "create"
  /\ target_exists = TRUE
  /\ dev_pc = "absent"
  /\ fs_initial = "absent"
  /\ fs_path = "absent"
  /\ fs_temp = "absent"
  /\ dev_master_fd = "None"
  /\ dev_slave_fd = "None"
  /\ temp_link_path = FALSE
  /\ device_created = FALSE
  /\ display_name = "none"
  /\ device_name = "none"
  /\ master_closes = 0
  /\ slave_closes = 0
  /\ unlinks = 0
  /\ teardowns = 0

\* os.path.islink(p)
IsLink(p) == p \in {"link_old", "link_slave"}

\* os.path.exists(p) or os.path.islink(p)
ExistsOrLink(p) == p # "absent"

\* a rename that leaves the destination as it was
Renamed_Kept(src, dst) == dst

\* os.rename(src, dst): what dst holds afterwards
Renamed(src, dst) == src

\* what a device step leaves alone besides the attributes it names
DeviceFrame ==
  /\ UNCHANGED nondevice_vars
  /\ UNCHANGED <<dev_class, fs_initial, dev_entry, target_exists, device_name>>

\* the position after the publication failed: the client goes on with the
\* slave name (create_virtual_device returns True), the echo device returns False
\* (a direct call of _create_symlink_safely has returned False)
AfterPublishFailure ==
  CASE dev_entry = "symlink" -> "returned"
    [] dev_class = "client"  -> "created"
    [] OTHER                 -> "create_false"

\* the position after the publication succeeded
AfterPublish ==
  CASE dev_entry = "symlink" -> "returned"
    [] dev_class = "client"  -> "created"
    [] OTHER                 -> "chmod"

\* the local display_name of create_virtual_device once the publication has
\* succeeded or failed (the echo class and a direct call have no such local)
DisplayName(ok) ==
  IF dev_entry = "create" /\ dev_class = "client"
    THEN (IF ok THEN "device_path" ELSE "slave_name")
    ELSE display_name

\* os.path.exists(self.temp_link_path): exists follows the link, so it is
\* True only if the temporary link is there and its target exists
TempExists == fs_temp # "absent" /\ target_exists

\* client create_virtual_device: self.master_fd, self.slave_fd = pty.openpty()
\* (an exception is caught by the outer except: return False)
ClientOpenPty ==
  /\ dev_class = "client"
  /\ dev_pc = "new"
  /\ \E ok \in BOOLEAN :
       IF ok
         THEN /\ dev_master_fd' = "open"
              /\ dev_slave_fd' = "open"
              /\ dev_pc' = "check_existing"
         ELSE /\ UNCHANGED <<dev_master_fd, dev_slave_fd>>
              /\ dev_pc' = "create_false"
  /\ DeviceFrame
  /\ UNCHANGED <<fs_path, fs_temp, temp_link_path, device_created, display_name,
                 master_closes, slave_closes, unlinks, teardowns>>

\* client create_virtual_device: if exists or islink: if islink: os.unlink
\* else: return False.  An OSError of os.unlink is caught by the inner
\* except: display_name = self.slave_name.
ClientCheckExisting ==
  /\ dev_class = "client"
  /\ dev_pc = "check_existing"
  /\ IF ~ExistsOrLink(fs_path)
       THEN /\ dev_pc' = "symlink"
            /\ UNCHANGED <<fs_path, display_name>>
       ELSE IF IsLink(fs_path)
         THEN \E ok \in BOOLEAN :
                IF ok
                  THEN /\ fs_path' = "absent"
                       /\ dev_pc' = "symlink"
                       /\ UNCHANGED display_name
                  ELSE /\ UNCHANGED fs_path
                       /\ display_name' = "slave_name"
                       /\ dev_pc' = "created"
         ELSE /\ dev_pc' = "create_false"
              /\ UNCHANGED <<fs_path, display_name>>
  /\ DeviceFrame
  /\ UNCHANGED <<fs_temp, dev_master_fd, dev_slave_fd, temp_link_path, device_created,
                 master_closes, slave_closes, unlinks, teardowns>>

\* echo create_device: if exists or islink: if islink: os.unlink
\* else: return False; except OSError: return False
EchoCheckExisting ==
  /\ dev_class = "echo"
  /\ dev_pc = "new"
  /\ IF ~ExistsOrLink(fs_path)
       THEN /\ dev_pc' = "openpty"
            /\ UNCHANGED fs_path
       ELSE IF IsLink(fs_path)
         THEN \E ok \in BOOLEAN :
                IF ok
                  THEN /\ fs_path' = "absent"
                       /\ dev_pc' = "openpty"
                  ELSE /\ UNCHANGED fs_path
                       /\ dev_pc' = "create_false"
         ELSE /\ dev_pc' = "create_false"
              /\ UNCHANGED fs_path
  /\ DeviceFrame
  /\ UNCHANGED <<fs_temp, dev_master_fd, dev_slave_fd, temp_link_path, device_created,
                 display_name, master_closes, slave_closes, unlinks, teardowns>>

\* echo create_device: self.master_fd, self.slave_fd = pty.openpty()
\* (an exception: self.cleanup(), which returns at once as device_created
\* is False; return False)
EchoOpenPty ==
  /\ dev_class = "echo"
  /\ dev_pc = "openpty"
  /\ \E ok \in BOOLEAN :
       IF ok
         THEN /\ dev_master_fd' = "open"
              /\ dev_slave_fd' = "open"
              /\ dev_pc' = "symlink"
         ELSE /\ UNCHANGED <<dev_master_fd, dev_slave_fd>>
              /\ dev_pc' = "create_false"
  /\ DeviceFrame
  /\ UNCHANGED <<fs_path, fs_temp, temp_link_path, device_created, display_name,
                 master_closes, slave_closes, unlinks, teardowns>>

\* _create_symlink_safely: self.temp_link_path = ...; os.symlink(target, temp)
\* (on OSError the temp link does not exist, temp_link_path stays set,
\* return False)
SymlinkTemp ==
  /\ dev_pc = "symlink"
  /\ temp_link_path' = TRUE
  /\ \E ok \in BOOLEAN :
       IF ok
         THEN /\ fs_temp' = "link_slave"
              /\ dev_pc' = "rename"
              /\ UNCHANGED display_name
         ELSE /\ UNCHANGED fs_temp
              /\ dev_pc' = AfterPublishFailure
              /\ display_name' = DisplayName(FALSE)
  /\ DeviceFrame
  /\ UNCHANGED <<fs_path, dev_master_fd, dev_slave_fd, device_created,
                 master_closes, slave_closes, unlinks, teardowns>>

\* _create_symlink_safely: os.rename(temp, link_path); self.temp_link_path = None
\* on OSError: if self.temp_link_path and os.path.exists(self.temp_link_path):
\*                 os.unlink(temp); self.temp_link_path = None
\*             return False
RenameTemp ==
  /\ dev_pc = "rename"
  /\ \E ok \in BOOLEAN :
       IF ok
         THEN /\ fs_path' = Renamed(fs_temp, fs_path)
              /\ fs_temp' = "absent"
              /\ temp_link_path' = FALSE
              /\ dev_pc' = AfterPublish
              /\ display_name' = DisplayName(TRUE)
         ELSE /\ UNCHANGED fs_path
              /\ fs_temp' = IF temp_link_path /\ TempExists THEN "absent" ELSE fs_temp
              /\ temp_link_path' = IF temp_link_path /\ TempExists THEN FALSE ELSE temp_link_path
              /\ dev_pc' = AfterPublishFailure
              /\ display_name' = DisplayName(FALSE)
  /\ DeviceFrame
  /\ UNCHANGED <<dev_master_fd, dev_slave_fd, device_created,
                 master_closes, slave_closes, unlinks, teardowns>>

\* echo create_device: os.chmod(...) (errors logged); self.device_created = True
EchoChmod ==
  /\ dev_class = "echo"
  /\ dev_pc = "chmod"
  /\ device_created' = TRUE
  /\ dev_pc' = "created"
  /\ DeviceFrame
  /\ UNCHANGED <<fs_path, fs_temp, dev_master_fd, dev_slave_fd, temp_link_path,
                 display_name, master_closes, slave_closes, unlinks, teardowns>>

\* SerialTCPClient.start(): self.virtual_device.device_path or
\* self.virtual_device.slave_name, for a device constructed with a device
\* path: the attribute device_path is set in __init__ and never cleared
DeviceName == "device_path"

\* SerialTCPClient.start(), after create_virtual_device() returned True and
\* the connect succeeded: device_name = device_path or slave_name; print(...)
ClientStartReport ==
  /\ dev_class = "client"
  /\ dev_entry = "create"
  /\ dev_pc = "created"
  /\ device_name = "none"
  /\ device_name' = DeviceName
  /\ UNCHANGED nondevice_vars
  /\ UNCHANGED <<dev_class, dev_pc, fs_initial, fs_path, fs_temp, dev_master_fd,
                 dev_slave_fd, temp_link_path, device_created, display_name,
                 master_closes, slave_closes, unlinks, teardowns, dev_entry,
                 target_exists>>

\* positions at which the creation has returned and no teardown is running
BetweenCalls == {"created", "create_false", "returned", "torn_down"}

\* client: close() is called (by SerialTCPClient.stop, by the atexit hook)
ClientCloseCall ==
  /\ dev_class = "client"
  /\ dev_pc \in BetweenCalls
  /\ teardowns < MaxTeardowns
  /\ teardowns' = teardowns + 1
  /\ dev_pc' = "close_unlink"
  /\ DeviceFrame
  /\ UNCHANGED <<fs_path, fs_temp, dev_master_fd, dev_slave_fd, temp_link_path,
                 device_created, display_name, master_closes, slave_closes, unlinks>>

\* client close: if self.device_path and (exists or islink): os.unlink(device_path)
ClientCloseUnlink ==
  /\ dev_pc = "close_unlink"
  /\ IF ExistsOrLink(fs_path)
       THEN /\ fs_path' = "absent"
            /\ unlinks' = unlinks + 1
       ELSE UNCHANGED <<fs_path, unlinks>>
  /\ dev_pc' = "close_temp"
  /\ DeviceFrame
  /\ UNCHANGED <<fs_temp, dev_master_fd, dev_slave_fd, temp_link_path, device_created,
                 display_name, master_closes, slave_closes, teardowns>>

\* client close: if self.temp_link_path and exists(temp): os.unlink(temp)
ClientCloseTemp ==
  /\ dev_pc = "close_temp"
  /\ fs_temp' = IF temp_link_path /\ TempExists THEN "absent" ELSE fs_temp
  /\ dev_pc' = "close_master"
  /\ DeviceFrame
  /\ UNCHANGED <<fs_path, dev_master_fd, dev_slave_fd, temp_link_path, device_created,
                 display_name, master_closes, slave_closes, unlinks, teardowns>>

\* client close: if self.master_fd is not None: os.close(...); self.master_fd = None
ClientCloseMaster ==
  /\ dev_pc = "close_master"
  /\ IF dev_master_fd # "None"
       THEN /\ master_closes' = master_closes + 1
            /\ dev_master_fd' = "None"
       ELSE UNCHANGED <<master_closes, dev_master_fd>>
  /\ dev_pc' = "close_slave"
  /\ DeviceFrame
  /\ UNCHANGED <<fs_path, fs_temp, dev_slave_fd, temp_link_path, device_created,
                 display_name, slave_closes, unlinks, teardowns>>

\* client close: if self.slave_fd is not None: os.close(...); self.slave_fd = None
ClientCloseSlave ==
  /\ dev_pc = "close_slave"
  /\ IF dev_slave_fd # "None"
       THEN /\ slave_closes' = slave_closes + 1
            /\ dev_slave_fd' = "None"
       ELSE UNCHANGED <<slave_closes, dev_slave_fd>>
  /\ dev_pc' = "torn_down"
  /\ DeviceFrame
  /\ UNCHANGED <<fs_path, fs_temp, dev_master_fd, temp_link_path, device_created,
                 display_name, master_closes, unlinks, teardowns>>

\* echo: stop() is called (by signal_handler, by __exit__)
EchoStopCall ==
  /\ dev_class = "echo"
  /\ dev_pc \in BetweenCalls
  /\ teardowns < MaxTeardowns
  /\ teardowns' = teardowns + 1
  /\ dev_pc' = "stop_master"
  /\ DeviceFrame
  /\ UNCHANGED <<fs_path, fs_temp, dev_master_fd, dev_slave_fd, temp_link_path,
                 device_created, display_name, master_closes, slave_closes, unlinks>>

\* echo stop: if self.master_fd: try: os.close(self.master_fd) except: pass
\* (the attribute keeps the number)
EchoStopMaster ==
  /\ dev_pc = "stop_master"
  /\ IF dev_master_fd # "None"
       THEN /\ master_closes' = master_closes + 1
            /\ dev_master_fd' = "closed"
       ELSE UNCHANGED <<master_closes, dev_master_fd>>
  /\ dev_pc' = "stop_slave"
  /\ DeviceFrame
  /\ UNCHANGED <<fs_path, fs_temp, dev_slave_fd, temp_link_path, device_created,
                 display_name, slave_closes, unlinks, teardowns>>

\* echo stop: if self.slave_fd: try: os.close(self.slave_fd) except: pass;
\* then self.cleanup()
EchoStopSlave ==
  /\ dev_pc = "stop_slave"
  /\ IF dev_slave_fd # "None"
       THEN /\ slave_closes' = slave_closes + 1
            /\ dev_slave_fd' = "closed"
       ELSE UNCHANGED <<slave_closes, dev_slave_fd>>
  /\ dev_pc' = "cleanup"
  /\ DeviceFrame
  /\ UNCHANGED <<fs_path, fs_temp, dev_master_fd, temp_link_path, device_created,
                 display_name, master_closes, unlinks, teardowns>>

\* echo: cleanup() is called on its own (the atexit hook)
EchoCleanupCall ==
  /\ dev_class = "echo"
  /\ dev_pc \in BetweenCalls
  /\ teardowns < MaxTeardowns
  /\ teardowns' = teardowns + 1
  /\ dev_pc' = "cleanup"
  /\ DeviceFrame
  /\ UNCHANGED <<fs_path, fs_temp, dev_master_fd, dev_slave_fd, temp_link_path,
                 device_created, display_name, master_closes, slave_closes, unlinks>>

\* echo cleanup: if not self.device_created: return
EchoCleanupCheck ==
  /\ dev_pc = "cleanup"
  /\ dev_pc' = IF device_created THEN "cleanup_unlink" ELSE "torn_down"
  /\ DeviceFrame
  /\ UNCHANGED <<fs_path, fs_temp, dev_master_fd, dev_slave_fd, temp_link_path,
                 device_created, display_name, master_closes, slave_closes, unlinks,
                 teardowns>>

\* echo cleanup: if exists or islink: os.unlink(self.device_path)
EchoCleanupUnlink ==
  /\ dev_pc = "cleanup_unlink"
  /\ IF ExistsOrLink(fs_path)
       THEN /\ fs_path' = "absent"
            /\ unlinks' = unlinks + 1
       ELSE UNCHANGED <<fs_path, unlinks>>
  /\ dev_pc' = "cleanup_temp"
  /\ DeviceFrame
  /\ UNCHANGED <<fs_temp, dev_master_fd, dev_slave_fd, temp_link_path, device_created,
                 display_name, master_closes, slave_closes, teardowns>>

\* echo cleanup: if self.temp_link_path and exists(temp): os.unlink(temp);
\* self.device_created = False
EchoCleanupTemp ==
  /\ dev_pc = "cleanup_temp"
  /\ fs_temp' = IF temp_link_path /\ TempExists THEN "absent" ELSE fs_temp
  /\ device_created' = FALSE
  /\ dev_pc' = "torn_down"
  /\ DeviceFrame
  /\ UNCHANGED <<fs_path, dev_master_fd, dev_slave_fd, temp_link_path,
                 display_name, master_closes, slave_closes, unlinks, teardowns>>

DeviceNext ==
  \/ ClientOpenPty
  \/ ClientCheckExisting
  \/ EchoCheckExisting
  \/ EchoOpenPty
  \/ SymlinkTemp
  \/ RenameTemp
  \/ EchoChmod
  \/ ClientStartReport
  \/ ClientCloseCall
  \/ ClientCloseUnlink
  \/ ClientCloseTemp
  \/ ClientCloseMaster
  \/ ClientCloseSlave
  \/ EchoStopCall
  \/ EchoStopMaster
  \/ EchoStopSlave
  \/ EchoCleanupCall
  \/ EchoCleanupCheck
  \/ EchoCleanupUnlink
  \/ EchoCleanupTemp

(***************************************************************************)
(* Part V.  _validate_device_path (the same code in both classes), applied *)
(* to a path in a small file tree.  A path is a flag (absolute or not) and *)
(* the sequence of its segments, as pathlib.Path(path).parts gives them.   *)
(* The tree: / and /a are writable directories, /ro is a directory that is *)
(* not writable, /f and /a/f are writable regular files.                   *)
(***************************************************************************)
SegmentNames == {"a", "ro", "f", ".."}

\* the sequences of at most n segments
PathsUpTo(n) == UNION {[1..k -> SegmentNames] : k \in 0..n}

\* the entries of the tree, by the segments that lead to them from the root
TreeDirs == {<<>>, <<"a">>, <<"ro">>}

TreeFiles == {<<"f">>, <<"a", "f">>}

TreeWritable == {<<>>, <<"a">>, <<"f">>, <<"a", "f">>}

\* Path(path).parent: the path without its last segment (the root is its own parent)
ParentOf(parts) == IF parts = <<>> THEN <<>> ELSE SubSeq(parts, 1, Len(parts) - 1)

\* '..' in path_obj.parts
HasTraversal(parts) == \E i \in 1..Len(parts) : parts[i] = ".."

\* parent.exists(): some entry, of any kind, is at the parent path
PathExists(parts) == parts \in TreeDirs \cup TreeFiles

\* os.access(parent, os.W_OK)
AccessWritable(parts) == parts \in TreeWritable

\* _validate_device_path: the four tests in their order
ValidateDevicePath(absolute, parts) ==
  IF ~absolute THEN FALSE
  ELSE IF HasTraversal(parts) THEN FALSE
  ELSE IF ~PathExists(ParentOf(parts)) THEN FALSE
  ELSE IF ~AccessWritable(ParentOf(parts)) THEN FALSE
  ELSE TRUE

\* __init__ up to the validation: self.device_path = device_path;
\* self.master_fd = None; self.slave_fd = None; ...
ValidateInit ==
  /\ vp_absolute \in BOOLEAN
  /\ vp_parts \in PathsUpTo(MaxSegments)
  /\ vp_result = "none"
  /\ vp_class \in {"client", "echo"}
  /\ vp_ctor = "running"
  /\ vp_hook = FALSE

\* the state of the validation part while another part is explored
ValidateIdle ==
  /\ vp_absolute = TRUE
  /\ vp_parts = <<>>
  /\ vp_result = "none"
  /\ vp_class = "client"
  /\ vp_ctor = "running"
  /\ vp_hook = FALSE

\* "if device_path" of the client's __init__: the string is not empty
PathGiven(absolute, parts) == absolute \/ parts # <<>>

\* the call self._validate_device_path(device_path) of __init__
\* (client: if device_path and not self._validate_device_path(device_path))
ValidateCall ==
  /\ vp_result = "none"
  /\ vp_result' = IF vp_class = "client" /\ ~PathGiven(vp_absolute, vp_parts)
                     THEN "skipped"
                     ELSE IF ValidateDevicePath(vp_absolute, vp_parts) THEN "True" ELSE "False"
  /\ UNCHANGED <<vp_absolute, vp_parts, vp_class, vp_ctor, vp_hook>>
  /\ UNCHANGED nonvalidate_vars

\* a constructor that registers its hook before it validates
HookRegistered_BeforeValidation(result, class) == class = "echo"

\* __init__ of the echo class: atexit.register(self.cleanup) is the last
\* statement, reached only if no ValueError was raised; the client class
\* registers nothing
HookRegistered(result, class) == class = "echo" /\ result # "False"

\* __init__: raise ValueError(...) if the validation returned False;
\* otherwise the rest of the constructor
ConstructorEnd ==
  /\ vp_ctor = "running"
  /\ vp_result # "none"
  /\ vp_ctor' = IF vp_result = "False" THEN "raised" ELSE "constructed"
  /\ vp_hook' = HookRegistered(vp_result, vp_class)
  /\ UNCHANGED <<vp_absolute, vp_parts, vp_result, vp_class>>
  /\ UNCHANGED nonvalidate_vars

(***************************************************************************)
(* Specifications.                                                         *)
(***************************************************************************)
(***************************************************************************)
(* Part VII.  The server's registry under clients_lock: the handlers, the  *)
(* broadcast loop and stop(), one step per statement around each           *)
(* "with self.clients_lock".                                               *)
(***************************************************************************)
nonlock_vars == <<client_vars, backoff_vars, server_vars, device_vars, validate_vars,
                  relay_vars>>

\* the threads that use the registry: one handler per connection, the
\* broadcast loop (serial_to_network_thread) and the caller of stop()
LkSerial == MaxConns + 1
LkStop == MaxConns + 2
LkThreads == 1..(MaxConns + 2)

LockInit ==
  /\ clients_lock = 0
  /\ lk_pc = [p \in LkThreads |->
                CASE p = LkSerial -> "snapshot"
                  [] p = LkStop   -> "running"
                  [] OTHER        -> "start"]
  /\ lk_clients = <<>>
  /\ lk_copy = <<>>
  /\ lk_i = 1
  /\ lk_failed = <<>>

\* the state of this part while another part is explored
LockIdle ==
  /\ clients_lock = 0
  /\ lk_pc = [p \in LkThreads |-> "absent"]
  /\ lk_clients = <<>>
  /\ lk_copy = <<>>
  /\ lk_i = 1
  /\ lk_failed = <<>>

\* the statement inside "with self.clients_lock" that follows each entry
LockedSection(pos) ==
  CASE pos = "start"    -> "register"
    [] pos = "finally"  -> "remove"
    [] pos = "snapshot" -> "copy"
    [] pos = "evict"    -> "evict_remove"
    [] OTHER            -> "stop_clear"

\* "with self.clients_lock:" entered by thread p (handle_client twice, the
\* broadcast loop twice, stop() once); the lock is free
LkAcquire(p) ==
  /\ lk_pc[p] \in {"start", "finally", "snapshot", "evict", "stop"}
  /\ clients_lock = 0
  /\ clients_lock' = p
  /\ lk_pc' = [lk_pc EXCEPT ![p] = LockedSection(lk_pc[p])]
  /\ UNCHANGED <<lk_clients, lk_copy, lk_i, lk_failed>>
  /\ UNCHANGED nonlock_vars

\* handle_client: if len(self.clients) >= self.max_clients: close; return
\*                self.clients.append(client_socket)      (end of the with block)
LkRegister(h) ==
  /\ lk_pc[h] = "register"
  /\ clients_lock' = 0
  /\ IF Len(lk_clients) >= MaxClientLimit
       THEN /\ lk_pc' = [lk_pc EXCEPT ![h] = "finally"]
            /\ UNCHANGED lk_clients
       ELSE /\ lk_pc' = [lk_pc EXCEPT ![h] = "serve"]
            /\ lk_clients' = Append(lk_clients, h)
  /\ UNCHANGED <<lk_copy, lk_i, lk_failed>>
  /\ UNCHANGED nonlock_vars

\* handle_client: the greeting and the receive loop end, the finally clause begins
LkServe(h) ==
  /\ lk_pc[h] = "serve"
  /\ lk_pc' = [lk_pc EXCEPT ![h] = "finally"]
  /\ UNCHANGED <<clients_lock, lk_clients, lk_copy, lk_i, lk_failed>>
  /\ UNCHANGED nonlock_vars

\* handle_client, finally: if client_socket in self.clients: self.clients.remove(...)
LkRemove(h) ==
  /\ lk_pc[h] = "remove"
  /\ clients_lock' = 0
  /\ lk_clients' = IF InList(h, lk_clients) THEN RemoveFirst(h, lk_clients) ELSE lk_clients
  /\ lk_pc' = [lk_pc EXCEPT ![h] = "done"]
  /\ UNCHANGED <<lk_copy, lk_i, lk_failed>>
  /\ UNCHANGED nonlock_vars

\* a broadcast loop whose sends are inside the with block of the snapshot
SnapshotReleases_Held == FALSE

\* serial_to_network_thread: "for client in clients_copy" is outside
\* "with self.clients_lock: clients_copy = self.clients.copy()"
SnapshotReleases == TRUE

\* serial_to_network_thread: disconnected_clients = []
\*     with self.clients_lock: clients_copy = self.clients.copy()
LkSnapshot ==
  /\ lk_pc[LkSerial] = "copy"
  /\ lk_copy' = lk_clients
  /\ lk_i' = 1
  /\ lk_failed' = <<>>
  /\ clients_lock' = IF SnapshotReleases THEN 0 ELSE clients_lock
  /\ lk_pc' = [lk_pc EXCEPT ![LkSerial] = "send"]
  /\ UNCHANGED lk_clients
  /\ UNCHANGED nonlock_vars

\* serial_to_network_thread: for client in clients_copy: client.send(data),
\* a failed send appends the peer to disconnected_clients; after the loop
\* "if disconnected_clients:" leads to the eviction
LkSend ==
  /\ lk_pc[LkSerial] = "send"
  /\ IF lk_i > Len(lk_copy)
       THEN /\ lk_pc' = [lk_pc EXCEPT ![LkSerial] =
                           IF lk_failed # <<>> THEN "evict" ELSE "snapshot"]
            /\ clients_lock' = IF clients_lock = LkSerial THEN 0 ELSE clients_lock
            /\ UNCHANGED <<lk_i, lk_failed>>
       ELSE /\ \E ok \in BOOLEAN :
                 lk_failed' = IF ok THEN lk_failed ELSE Append(lk_failed, lk_copy[lk_i])
            /\ lk_i' = lk_i + 1
            /\ UNCHANGED <<lk_pc, clients_lock>>
  /\ UNCHANGED <<lk_clients, lk_copy>>
  /\ UNCHANGED nonlock_vars

\* serial_to_network_thread, with self.clients_lock:
\*     for client in disconnected_clients:
\*         if client in self.clients: self.clients.remove(client)
\*         client.close()
LkEvict ==
  /\ lk_pc[LkSerial] = "evict_remove"
  /\ lk_clients' = RemoveAll(lk_failed, lk_clients)
  /\ clients_lock' = 0
  /\ lk_pc' = [lk_pc EXCEPT ![LkSerial] = "snapshot"]
  /\ UNCHANGED <<lk_copy, lk_i, lk_failed>>
  /\ UNCHANGED nonlock_vars

\* stop() is called: running = False, the listening socket is closed
LkStopCalled ==
  /\ lk_pc[LkStop] = "running"
  /\ lk_pc' = [lk_pc EXCEPT ![LkStop] = "stop"]
  /\ UNCHANGED <<clients_lock, lk_clients, lk_copy, lk_i, lk_failed>>
  /\ UNCHANGED nonlock_vars

\* stop(), with self.clients_lock:
\*     for client in self.clients.copy(): client.close()
\*     self.clients.clear()
LkStopClear ==
  /\ lk_pc[LkStop] = "stop_clear"
  /\ lk_clients' = <<>>
  /\ clients_lock' = 0
  /\ lk_pc' = [lk_pc EXCEPT ![LkStop] = "done"]
  /\ UNCHANGED <<lk_copy, lk_i, lk_failed>>
  /\ UNCHANGED nonlock_vars

LockNext ==
  \/ \E p \in LkThreads : LkAcquire(p)
  \/ \E h \in Conns : LkRegister(h)
  \/ \E h \in Conns : LkServe(h)
  \/ \E h \in Conns : LkRemove(h)
  \/ LkSnapshot
  \/ LkSend
  \/ LkEvict
  \/ LkStopCalled
  \/ LkStopClear

vars == <<client_vars, backoff_vars, server_vars, device_vars, validate_vars, relay_vars, lock_vars>>

\* the state of the server part while another part is explored
ServerIdle ==
  /\ ServerInit
  /\ max_clients = 1

\* the state of the client part while another part is explored
ClientIdle ==
  /\ ClientInit
  /\ max_reconnect_attempts = 1

Init == ClientInit /\ BackoffIdle /\ ServerIdle /\ DeviceIdle /\ ValidateIdle /\ RelayIdle /\ LockIdle

Next ==
  \/ MainStep
  \/ ServerDown
  \/ \E t \in Threads : ThreadStep(t)
  \/ \E t \in Threads : DeviceRead(t)

\* the client: main thread, relay threads, environment
Spec == Init /\ [][Next]_vars

\* the client with the chunks received from the server followed to the device
OrderInit == ClientInit /\ BackoffIdle /\ ServerIdle /\ DeviceIdle /\ ValidateIdle /\ RelayInit /\ LockIdle

OrderSpec == OrderInit /\ [][Next]_vars

\* the backoff function over its inputs
BackoffSpecInit == ClientIdle /\ BackoffInit /\ ServerIdle /\ DeviceIdle /\ ValidateIdle /\ RelayIdle /\ LockIdle

BackoffNext == BackoffSequence

BackoffSpec == BackoffSpecInit /\ [][BackoffNext]_vars

\* the server: main thread, accept thread, handler threads
ServerSpecInit == ClientIdle /\ BackoffIdle /\ ServerInit /\ DeviceIdle /\ ValidateIdle /\ RelayIdle /\ LockIdle

ServerSpec == ServerSpecInit /\ [][ServerNext]_vars

\* the client, with one more thread that calls stop()
ConcurrentStopNext == Next \/ OtherStep

ConcurrentStopSpec == Init /\ [][ConcurrentStopNext]_vars

\* the client, with a signal delivered during stop()
NestedStopNext == Next \/ SignalDuringStop \/ SignalHandlerExit

NestedStopSpec == Init /\ [][NestedStopNext]_vars

\* the client, with start() called again after stop()
RestartNext == Next \/ StartAfterStop

RestartSpec == Init /\ [][RestartNext]_vars

\* the client is not run
ClientAbsent ==
  /\ main_pc = "absent"
  /\ running = FALSE
  /\ shutdown_event = FALSE
  /\ tcp_socket = "None"
  /\ reconnect_attempts = 0
  /\ max_reconnect_attempts = 1
  /\ reconnection_in_progress = FALSE
  /\ threads_lock = 0
  /\ tcp_thread = 0
  /\ virtual_thread = 0
  /\ virtual_device = FALSE
  /\ master_fd = "None"
  /\ pc = [t \in Threads |-> "unborn"]
  /\ ret = [t \in Threads |-> "continue"]
  /\ exc = [t \in Threads |-> FALSE]
  /\ server_up = TRUE
  /\ connect_calls = 0
  /\ stops_done = 0
  /\ outer_pc = "none"
  /\ other_pc = "none"

\* the server is not run
ServerAbsent ==
  /\ srv_main_pc = "absent"
  /\ srv_running = FALSE
  /\ srv_shutdown_event = FALSE
  /\ server_socket = "None"
  /\ serial_conn = "None"
  /\ max_clients = 1
  /\ clients = <<>>
  /\ client_threads = <<>>
  /\ sock = [c \in Conns |-> "none"]
  /\ accept_pc = "unborn"
  /\ accepted = 0
  /\ handler_pc = [c \in Conns |-> "unborn"]
  /\ srv_stops_done = 0
  /\ serial_pc = "unborn"
  /\ clients_copy = <<>>
  /\ send_i = 0
  /\ disconnected_clients = <<>>
  /\ delivered = {}

\* one of the two programs runs: the client (as in Spec) or the server (as in
\* ServerSpec); they are separate processes and share no state
ProgramInit ==
  /\ DeviceIdle
  /\ ValidateIdle /\ RelayIdle /\ LockIdle
  /\ \/ ClientInit /\ BackoffIdle /\ ServerAbsent
     \/ ClientAbsent /\ BackoffIdle /\ ServerInit

\* one pseudo-device of either class, from its creation through its teardowns
DeviceSpecInit ==
  ClientAbsent /\ BackoffIdle /\ ServerAbsent /\ DeviceInit /\ ValidateIdle /\ RelayIdle /\ LockIdle

\* _validate_device_path over its inputs
ValidateSpecInit ==
  ClientAbsent /\ BackoffIdle /\ ServerAbsent /\ DeviceIdle /\ ValidateInit /\ RelayIdle /\ LockIdle

ValidateNext == ValidateCall \/ ConstructorEnd

ValidateSpec == ValidateSpecInit /\ [][ValidateNext]_vars

DeviceSpec == DeviceSpecInit /\ [][DeviceNext]_vars

\* the registry of the server under its lock
LockSpecInit ==
  ClientAbsent /\ BackoffIdle /\ ServerAbsent /\ DeviceIdle /\ ValidateIdle /\ RelayIdle
    /\ LockInit

LockSpec == LockSpecInit /\ [][LockNext]_vars

ProgramNext == Next \/ ServerNext

ProgramSpec == ProgramInit /\ [][ProgramNext]_vars

\* the steps of the main thread that need no outside event: everything but
\* the arrival of the signal
MainProgress ==
  \/ StartDevice
  \/ StartConnect
  \/ StartFailed
  \/ StartThreads
  \/ StopRunning
  \/ StopEvent
  \/ StopLock
  \/ StopJoin
  \/ StopSocketClose
  \/ StopSocketNone
  \/ StopDeviceClose
  \/ StopDeviceFdNone
  \/ StopDeviceNone

\* the client with fair scheduling: a thread that can take a step eventually
\* takes one.  The signal that makes the main thread call stop() gets no
\* fairness: it may never arrive.
LiveSpec ==
  /\ Spec
  /\ WF_vars(MainProgress)
  /\ \A t \in Threads : WF_vars(ThreadStep(t))

(***************************************************************************)
(* Claims about the client's reconnect sequence.                           *)
(***************************************************************************)
\* positions inside the guarded part of _handle_connection_loss
\* (from reconnection_in_progress = True to the finally clause)
SequencePcs == {"rec_inc", "rec_chk", "rec_wait", "conn_close_old", "conn_new",
                "conn_connect", "rec_verify", "restart", "rs_join_tcp",
                "rs_join_virt", "rs_unlock", "hcl_fin"}
\* positions inside connect_to_server
ConnectPcs == {"conn_close_old", "conn_new", "conn_connect"}
\* positions inside _handle_connection_loss before the guard
PendingPcs == {"hcl", "hcl_lock"}
\* positions of the relay loops proper
LoopPcs == {"loop", "chk", "select", "recv", "recv_empty", "write", "write_blocked", "dev_eio", "dev_ebadf",
            "vsel", "vread", "vsend", "vsendall"}

InSequence(t) == pc[t] \in SequencePcs

\* C1: at most one reconnect sequence executes at any time: two relay threads
\* are never both inside the guarded part of _handle_connection_loss, and a
\* sequence runs only while reconnection_in_progress is set.
C1_SingleSequence ==
  /\ \A t, u \in Threads : (InSequence(t) /\ InSequence(u)) => t = u
  /\ (\E t \in Threads : InSequence(t)) => reconnection_in_progress

\* C1 witness: one thread runs the sequence while the other, having detected
\* the same loss, found the flag set and is about to return.
C1_Witness ==
  \E t, u \in Threads : t # u /\ InSequence(t) /\ pc[u] = "hcl_skip"

\* no thread is handling a loss or about to
NoSequenceInProgressOrPending ==
  /\ ~reconnection_in_progress
  /\ \A t \in Threads : pc[t] \notin SequencePcs \cup PendingPcs \cup {"hcl_skip"}

\* a state the client cannot leave by itself: running, the server gone, no
\* connection, no sequence in progress or pending, and the relay threads in
\* positions from which, with tcp_socket None, no loss handling is entered
QuiescentLoss ==
  /\ main_pc = "idle"
  /\ running
  /\ ~server_up
  /\ tcp_socket = "None"
  /\ NoSequenceInProgressOrPending
  /\ \A t \in Threads : pc[t] \notin {"select", "recv", "recv_empty", "write", "write_blocked", "vsendall"}

\* C2 (as claimed): the client never rests with running True, no connection
\* and no reconnect sequence in progress or pending; a failed attempt is
\* always followed by another loss detection.
C2_NeverQuiescentLoss == ~QuiescentLoss

\* C2, why QuiescentLoss is a resting place: as long as stop() is not
\* requested from outside, every step from such a state leads to such a state.
C2_QuiescentLossIsClosed ==
  [][(QuiescentLoss /\ main_pc' = "idle") => QuiescentLoss']_vars

\* C2 (as claimed, temporal form, under LiveSpec): once the server is gone and
\* the connection is lost, running eventually becomes False.
C2_EventuallyStops ==
  (running /\ ~server_up /\ tcp_socket = "None") ~> ~running

\* C3 (as claimed): when a relay thread leaves _restart_data_threads after a
\* successful reconnect, a network-to-device loop and a device-to-network
\* loop are running.
C3_BothLoopsRunAfterRestart ==
  \A t \in Threads :
    pc[t] = "rs_unlock" =>
      /\ \E a \in Threads : Kind(a) = "tcp" /\ pc[a] \in LoopPcs
      /\ \E b \in Threads : Kind(b) = "virt" /\ pc[b] \in LoopPcs

\* C4 (as claimed): once max_reconnect_attempts consecutive reconnect
\* attempts have failed, running is False.
C4_StoppedAfterMaxFailures ==
  (/\ connect_calls = max_reconnect_attempts
   /\ \A t \in Threads : pc[t] \notin ConnectPcs) => ~running

\* C4 (amended): the sequence that follows max_reconnect_attempts consecutive
\* failed attempts raises reconnect_attempts above the limit and sets running
\* to False: outside that sequence's test, a counter above the limit means
\* running is False.
C4_StoppedOnceLimitExceeded ==
  (/\ reconnect_attempts > max_reconnect_attempts
   /\ \A t \in Threads : pc[t] # "rec_chk") => ~running

\* C4 witness: all max_reconnect_attempts attempts failed, and the next
\* sequence has run.
C4_Witness ==
  /\ connect_calls = max_reconnect_attempts
  /\ reconnect_attempts = max_reconnect_attempts + 1
  /\ \E t \in Threads : pc[t] = "hcl_fin"
  /\ ~running
  /\ main_pc = "idle"

\* C5: connect is called at most max_reconnect_attempts times without an
\* intervening success; without shutdown the k-th sequence makes the k-th
\* connect call (k up to the limit) and any later sequence makes none; a
\* sequence that calls connect is within the limit.
C5_AttemptsAndConnects ==
  /\ connect_calls <= max_reconnect_attempts
  /\ \A t \in Threads : pc[t] \in ConnectPcs => reconnect_attempts <= max_reconnect_attempts
  /\ (/\ ~shutdown_event
      /\ \A t \in Threads : pc[t] \notin {"rec_chk", "rec_wait", "conn_close_old"})
       => connect_calls = Min(reconnect_attempts, max_reconnect_attempts)

\* C5 witness: the limit is 2, two connects have failed, the third sequence
\* has stopped the client without a third connect.
C5_Witness ==
  /\ max_reconnect_attempts = 2
  /\ connect_calls = 2
  /\ reconnect_attempts = 3
  /\ ~running
  /\ ~shutdown_event

\* C6: when connect_to_server has returned success inside a reconnect
\* sequence, reconnect_attempts is 0; so is it when start() has connected.
C6_CounterZeroAfterConnect ==
  /\ \A t \in Threads : pc[t] = "rec_verify" => reconnect_attempts = 0
  /\ main_pc = "start_run" => reconnect_attempts = 0

\* C6 witness: a reconnect has just succeeded
C6_Witness ==
  \E t \in Threads : pc[t] = "rec_verify" /\ tcp_socket = "connected" /\ running

\* C8: while shutdown is set, a sequence in its backoff wait can only return
\* (to the finally clause), and doing so calls no connect, changes no socket
\* and starts no thread.
C8_ShutdownAbortsWait ==
  [][\A t \in Threads :
       (pc[t] = "rec_wait" /\ shutdown_event) =>
         /\ pc'[t] \in {"rec_wait", "hcl_fin"}
         /\ pc'[t] = "hcl_fin" =>
              /\ connect_calls' = connect_calls
              /\ tcp_thread' = tcp_thread
              /\ virtual_thread' = virtual_thread]_vars

\* C8 witness: the first sequence (within the limit) reached its finally
\* clause after shutdown without any connect call: the old socket is
\* untouched and no connect was counted.
C8_Witness ==
  \E t \in Threads :
    /\ pc[t] = "hcl_fin"
    /\ shutdown_event
    /\ reconnect_attempts = 1
    /\ connect_calls = 0
    /\ tcp_socket = "connected"

\* C9 (as claimed): once stop() has set running = False and shutdown_event,
\* no reconnect sequence enters connect_to_server.
C9_NoConnectAfterStop ==
  [][(~running /\ shutdown_event) =>
       \A t \in Threads : ~(pc[t] = "conn_close_old" /\ pc'[t] = "conn_new")]_vars

(***************************************************************************)
(* Claims about the backoff delay (BackoffSpec).                           *)
(***************************************************************************)
\* C7: the wait before attempt n is min(reconnect_delay * 2^(n-1), 30); it
\* never exceeds 30 and is never shorter than the wait before attempt n-1.
C7_BackoffDelay ==
  bk_attempts >= 1 =>
    /\ bk_delay = (IF bk_reconnect_delay * 2 ^ (bk_attempts - 1) < 30
                     THEN bk_reconnect_delay * 2 ^ (bk_attempts - 1)
                     ELSE 30)
    /\ bk_delay <= 30
    /\ bk_prev_delay <= bk_delay

\* C7 witness: with the default reconnect_delay the sixth attempt is the
\* first whose wait is cut to the ceiling (1 * 2^5 = 32 > 30), after a wait
\* of 16 before the fifth.
C7_Witness ==
  /\ bk_reconnect_delay = 1
  /\ bk_attempts = 6
  /\ bk_prev_delay = 16
  /\ bk_delay = 30

(***************************************************************************)
(* Claims about the server (ServerSpec).                                   *)
(***************************************************************************)
\* C10: once stop() has set running = False and shutdown_event on the server,
\* no accepted connection is added to the clients registry, and after stop()
\* has returned the registry is empty.
C10_NoRegistrationAfterStop ==
  /\ [][(~srv_running /\ srv_shutdown_event) => Len(clients') <= Len(clients)]_vars
  /\ [](srv_main_pc = "stopped" => clients = <<>>)

\* positions of handle_client before its block under clients_lock
BeforeRegisterPcs == {"unborn", "created", "limit"}

\* C11: the registry never holds more than max_clients peers and holds no
\* peer twice; a handler that has not reached its locked block is not in the
\* registry; a handler that finds the registry full closes its socket and
\* returns without registering, and one that returned at the limit is not in
\* the registry afterwards.
C11_RegistryWithinLimit ==
  /\ [](Len(clients) <= max_clients)
  /\ [](\A i, j \in 1..Len(clients) : clients[i] = clients[j] => i = j)
  /\ [](\A c \in Conns :
          handler_pc[c] \in BeforeRegisterPcs \cup {"limit_return"} => ~InList(c, clients))
  /\ [][\A c \in Conns :
          (handler_pc[c] = "limit" /\ Len(clients) >= max_clients /\ handler_pc'[c] # "limit")
            => /\ handler_pc'[c] = "limit_return"
               /\ sock'[c] = "closed"
               /\ clients' = clients]_vars
  /\ [][\A c \in Conns :
          (handler_pc[c] \notin BeforeRegisterPcs /\ ~InList(c, clients))
            => ~InList(c, clients')]_vars

\* C11 witness: the registry is full, the handlers of the registered peers are
\* serving them, and a further connection has been closed at the limit.
C11_Witness ==
  /\ Len(clients) = max_clients
  /\ srv_running
  /\ \A i \in 1..Len(clients) : sock[clients[i]] = "open" /\ handler_pc[clients[i]] = "select"
  /\ \E c \in Conns : handler_pc[c] = "limit_return" /\ sock[c] = "closed" /\ ~InList(c, clients)

\* the peers of a list, as a set
Members(l) == {l[i] : i \in 1..Len(l)}

\* C12: when the for loop over the snapshot is over, the send has been
\* attempted on every peer of the snapshot: each peer either received the
\* chunk or is in disconnected_clients, whatever the place of a failing peer;
\* the locked batch that follows removes exactly the failed peers from the
\* registry and closes exactly their sockets: every other peer stays as it was.
C12_BroadcastIsolation ==
  /\ []((serial_pc = "remove" \/ (serial_pc = "send" /\ send_i > Len(clients_copy)))
          => /\ delivered \cup Members(disconnected_clients) = Members(clients_copy)
             /\ delivered \cap Members(disconnected_clients) = {})
  /\ [][(serial_pc = "remove" /\ serial_pc' = "loop")
          => \A c \in Conns :
               IF InList(c, disconnected_clients)
                 THEN ~InList(c, clients') /\ sock'[c] = "closed"
                 ELSE /\ InList(c, clients') = InList(c, clients)
                      /\ sock'[c] = sock[c]]_vars

\* C12 witness: two registered peers, the send to the first failed, the second
\* received the chunk; after the batch the first is closed and gone from the
\* registry, the second is still registered and open.
C12_Witness ==
  /\ serial_pc = "loop"
  /\ Len(clients_copy) = 2
  /\ disconnected_clients = <<clients_copy[1]>>
  /\ delivered = {clients_copy[2]}
  /\ clients = <<clients_copy[2]>>
  /\ sock[clients_copy[1]] = "closed"
  /\ sock[clients_copy[2]] = "open"
  /\ srv_running

C14_ConcurrentStopReturns == other_pc # "raised"

\* C15: a stop() that signal_handler calls while a stop() of the same thread
\* is in progress is never stuck: it is never waiting for threads_lock while
\* the interrupted stop(), which cannot resume before the handler returns,
\* holds that lock inside its joins.
C15_NestedStopNotBlocked ==
  ~(outer_pc = "stop_join" /\ main_pc = "stop_lock" /\ threads_lock = -1)

(***************************************************************************)
(* Claims about the pseudo-device and its published link (DeviceSpec).     *)
(***************************************************************************)
\* C16: over any sequence of teardown calls (client close; echo stop and
\* cleanup) os.close is called at most once on the master descriptor and at
\* most once on the slave descriptor, and the teardowns unlink the device
\* path at most once: a second teardown closes and unlinks nothing.
C16_ClosedAndUnlinkedAtMostOnce ==
  /\ master_closes <= 1
  /\ slave_closes <= 1
  /\ unlinks <= 1

\* C19: a regular file found at the device path when creation starts is
\* still there after the failed creation and after every later teardown.
C19_RegularFilePreserved == fs_initial = "file" => fs_path = "file"

\* C20 (as stated): from the start of creation to the end of teardown the
\* device path is absent or a symbolic link to the slave name, and after a
\* creation that returned True it is that link.
C20_PathAbsentOrSlaveLink ==
  /\ dev_pc # "absent" => fs_path \in {"absent", "link_slave"}
  /\ dev_pc = "created" => fs_path = "link_slave"

\* C20 (amended): the device path holds the entry that was there before the
\* creation started, or nothing, or a symbolic link to the slave name; during
\* the steps of the publication it holds nothing; and after a creation that
\* published the link (client: display_name is the device path; echo:
\* device_created) it is the link to the slave name.
C20_PathInitialAbsentOrSlaveLink ==
  /\ fs_path \in {fs_initial, "absent", "link_slave"}
  /\ dev_pc \in {"openpty", "symlink", "rename"} => fs_path = "absent"
  /\ (dev_pc \in {"chmod", "created"} /\ (display_name = "device_path" \/ dev_class = "echo"))
        => fs_path = "link_slave"

\* C20 witness: a creation that found a stale link at the device path has
\* replaced it and returned with the link to the slave published.
C20_Witness ==
  /\ fs_initial = "link_old"
  /\ dev_pc = "created"
  /\ fs_path = "link_slave"
  /\ dev_master_fd = "open"
  /\ fs_temp = "absent"

(***************************************************************************)
(* Claims about the order of stop() (ProgramSpec).                         *)
(***************************************************************************)
\* positions of the client's stop() after running and shutdown_event are set
ClientReleasePcs == {"stop_lock", "stop_join", "stop_sock", "stop_sock_none",
                     "stop_dev", "stop_dev_fd", "stop_dev_none"}

\* positions of the server's stop() after running and shutdown_event are set
ServerReleasePcs == {"stop_server_socket", "stop_clients", "stop_join", "stop_serial"}

\* C17: stop() has set running = False and shutdown_event before it joins a
\* thread or releases a resource, and it releases in the order listening
\* socket, registered peers, network connection, device or serial handle:
\* the client reaches the release of the device only through a step of stop()
\* that leaves tcp_socket None, and closes the open device descriptor nowhere
\* else (a socket that the reconnect sequence stores after that step is not
\* one stop() releases);
\* the server closes the listening socket first, reaches the joins only
\* through the step that closes and clears the registered peers, and closes
\* the open serial handle only in its last step.
C17_StopOrder ==
  /\ [](main_pc \in ClientReleasePcs => ~running /\ shutdown_event)
  /\ [](srv_main_pc \in ServerReleasePcs => ~srv_running /\ srv_shutdown_event)
  /\ [][(main_pc' = "stop_dev" /\ main_pc # "stop_dev")
          => /\ main_pc \in {"stop_sock", "stop_sock_none"}
             /\ tcp_socket' = "None"
             /\ UNCHANGED <<master_fd, virtual_device>>]_vars
  /\ [][(master_fd = "open" /\ master_fd' # "open")
          => main_pc = "stop_dev" /\ UNCHANGED tcp_socket]_vars
  /\ [][(server_socket = "listening" /\ server_socket' # "listening")
          => /\ srv_main_pc = "stop_server_socket"
             /\ UNCHANGED <<clients, sock, serial_conn>>]_vars
  /\ [][(srv_main_pc' = "stop_join" /\ srv_main_pc # "stop_join")
          => /\ srv_main_pc = "stop_clients"
             /\ server_socket = "None"
             /\ clients' = <<>>
             /\ \A c \in Members(clients) : sock'[c] = "closed"
             /\ UNCHANGED serial_conn]_vars
  /\ [][(serial_conn = "open" /\ serial_conn' # "open")
          => srv_main_pc = "stop_serial" /\ server_socket = "None"]_vars

\* C17 witness: the stop() of a client that was running has released the
\* network connection and is about to close the device, which is still open.
C17_Witness ==
  /\ main_pc = "stop_dev"
  /\ tcp_thread # 0
  /\ ~running
  /\ shutdown_event
  /\ tcp_socket = "None"
  /\ virtual_device
  /\ master_fd = "open"

(***************************************************************************)
(* Claims about the stopped client (RestartSpec).                          *)
(***************************************************************************)
\* C18: once a stop() of the client has returned, no later call of start(),
\* stop() or _handle_connection_loss() sets running to True, creates a
\* pseudo-device or starts a relay thread.
C18_StoppedIsTerminal ==
  [][stops_done >= 1 =>
       /\ ~(~running /\ running')
       /\ ~(~virtual_device /\ virtual_device')
       /\ \A t \in Threads : pc[t] \in {"unborn", "done"} => pc'[t] = pc[t]]_vars

(***************************************************************************)
(* Claims about the temporary link and the reported name (DeviceSpec).     *)
(***************************************************************************)
\* C21: whenever _create_symlink_safely has returned, after a success or a
\* failure at any step and whether or not the target exists, and after every
\* close() or cleanup(), no temporary link of the device is in the filesystem.
C21_NoTemporaryLinkLeft == dev_pc \in BetweenCalls => fs_temp = "absent"

\* C22: when the publication of the link at the device path has failed, the
\* creation still returns True (the echo device never returns False with its
\* pseudo-terminal open), and the name that start() reports as the location
\* of the device is the slave name, as display_name is, not the device path.
C22_FallbackReportsSlaveName ==
  /\ ~(dev_class = "echo" /\ dev_pc = "create_false" /\ dev_master_fd = "open")
  /\ (display_name = "slave_name" /\ device_name # "none") => device_name = "slave_name"

(***************************************************************************)
(* Claims about the validation of the device path (ValidateSpec).          *)
(***************************************************************************)
\* C23: _validate_device_path returns True exactly when the path is
\* absolute, has no '..' segment, and its parent is a directory that exists
\* and is writable; it returns False whenever one of the four fails.
C23_ValidatesExactly ==
  vp_result # "none" =>
    (vp_result = "True" <=>
       /\ vp_absolute
       /\ ~HasTraversal(vp_parts)
       /\ ParentOf(vp_parts) \in TreeDirs
       /\ ParentOf(vp_parts) \in TreeWritable)

C25_EmptyReceiveIsLoss ==
  /\ [][\A t \in Threads :
          /\ (pc[t] = "recv_empty" /\ pc'[t] # pc[t])
               => pc'[t] = "hcl" /\ ret'[t] = "continue"
          /\ (pc[t] = "recv" /\ pc'[t] \notin {"recv", "recv_empty", "write", "done"})
               => pc'[t] = "hcl" /\ ret'[t] = "continue"
          /\ (pc'[t] = "write" /\ pc[t] # "write") => pc[t] = "recv"]_vars
  /\ [][\A c \in Conns :
          /\ (handler_pc[c] = "recv_empty" /\ handler_pc'[c] # handler_pc[c])
               => handler_pc'[c] = "fin_remove"
          /\ (handler_pc[c] = "fin_remove" /\ handler_pc'[c] # handler_pc[c])
               => handler_pc'[c] = "fin_close" /\ ~InList(c, clients')
          /\ (handler_pc[c] = "fin_close" /\ handler_pc'[c] # handler_pc[c])
               => handler_pc'[c] = "done" /\ sock'[c] = "closed"]_vars

\* C25 witness: recv on the connected socket of a running client has
\* returned b''.
C25_Witness ==
  \E t \in Threads :
    /\ pc[t] = "recv_empty"
    /\ running
    /\ tcp_socket = "connected"
    /\ master_fd = "open"

\* a relay thread of kind k exists and has not ended
LoopAlive(k) == \E t \in Threads : Kind(t) = k /\ pc[t] \notin {"unborn", "done"}

\* some relay thread is inside _handle_connection_loss or the reconnect
\* sequence, which ends with _restart_data_threads
RestartUnderWay == \E t \in Threads : pc[t] \in SequencePcs \cup PendingPcs \cup {"hcl_skip"}

\* C26: while running is True both relay loops are active or are being
\* started or restarted: there is no state with running True in which a
\* relay loop has ended and no reconnect sequence is under way.
C26_RunningImpliesLoopsActive ==
  running => (LoopAlive("tcp") /\ LoopAlive("virt")) \/ RestartUnderWay

(***************************************************************************)
(* Claims about the end of the client and of the threads (LiveSpec).       *)
(***************************************************************************)
\* C27: once the reconnect sequence has set running to False (the started
\* client's main thread is still in its sleep loop), stop() is eventually
\* called and returns, with the socket and the device released, although no
\* signal arrives.
C27_ExhaustionLeadsToStop ==
  (main_pc = "idle" /\ tcp_thread # 0 /\ ~running)
    ~> (main_pc = "stopped" /\ tcp_socket = "None" /\ ~virtual_device)


\* C28: once stop() has been requested (running False and the shutdown event
\* set), every thread of the client leaves its loop or its reconnect wait:
\* under fair scheduling no thread stays blocked or looping forever.
C28_ThreadsEndAfterStop ==
  (main_pc # "idle" /\ ~running /\ shutdown_event)
    ~> (\A t \in Threads : ~IsAlive(t))


(***************************************************************************)
(* Claims about the order of the relayed bytes (OrderSpec).                *)
(***************************************************************************)
\* C29: the chunks written to the device are, in order, a subsequence of the
\* chunks received from the server, and the chunks sent to the server are, in
\* order, a subsequence of the chunks read from the device: none is forwarded
\* twice and none before a chunk that arrived earlier, also when a reconnect
\* has restarted the relay loops.
C29_ForwardedInOrder ==
  /\ \A i \in 1..Len(forwarded) : forwarded[i] \in 1..rx_count
  /\ \A i, j \in 1..Len(forwarded) : i < j => forwarded[i] < forwarded[j]
  /\ \A i \in 1..Len(sent) : sent[i] \in 1..tx_count
  /\ \A i, j \in 1..Len(sent) : i < j => sent[i] < sent[j]

\* two chunks were written to the device, the first received on the first
\* connection and the second on a connection made by the reconnect sequence
C29_Witness ==
  /\ forwarded = <<1, 2>>
  /\ sent = <<1, 2>>
  /\ ~rx_epoch[1]
  /\ rx_epoch[2]

(***************************************************************************)
(* Claims about start() of the client (Spec).                              *)
(***************************************************************************)
\* C30: start() never ends with an exception; it goes on to set running and
\* start the relay threads, and so to return True, only with the device
\* created, the socket connected and reconnect_attempts 0; when it returns
\* False the client is not running, no relay thread was started and, the
\* device or the connect having failed, no connection exists.
C30_StartContract ==
  /\ main_pc # "start_raised"
  /\ main_pc = "start_run" =>
       /\ virtual_device /\ master_fd = "open"
       /\ tcp_socket = "connected"
       /\ reconnect_attempts = 0
  /\ main_pc = "start_false" =>
       /\ ~running
       /\ tcp_socket = "None"
       /\ tcp_thread = 0 /\ virtual_thread = 0
       /\ \A t \in Threads : pc[t] = "unborn"

(***************************************************************************)
(* Claims about connect_to_server (Spec).                                  *)
(***************************************************************************)
\* C31: a connect_to_server that fails, called by start() or by the reconnect
\* sequence, returns False to its caller without raising, leaves
\* reconnect_attempts as it was and leaves tcp_socket None.
C31_FailedConnectFrame ==
  [][(\A t \in Threads :
        (pc[t] = "conn_connect" /\ pc'[t] \notin {"conn_connect", "rec_verify"}) =>
          (/\ pc'[t] = "hcl_fin"
           /\ exc'[t] = exc[t]
           /\ tcp_socket' = "None"
           /\ reconnect_attempts' = reconnect_attempts))
     /\ ((main_pc = "start_conn" /\ main_pc' \notin {"start_conn", "start_run"}) =>
          (/\ main_pc' = "start_false"
           /\ tcp_socket' = "None"
           /\ reconnect_attempts' = reconnect_attempts))]_vars

\* a connect of the reconnect sequence has just failed on a socket it opened
C31_Witness ==
  \E t \in Threads :
    /\ pc[t] = "hcl_fin"
    /\ connect_calls > 0
    /\ reconnect_attempts > 0
    /\ tcp_socket = "None"

(***************************************************************************)
(* Claims about the state stop() leaves (ProgramSpec).                     *)
(***************************************************************************)
\* C32: when stop() returns, also after a shutdown and a close that raised,
\* the client has running False, the shutdown event set, tcp_socket None and
\* virtual_device None; the server has running False, the shutdown event
\* set, no listening socket, an empty registry, every peer it had registered
\* closed and the serial handle closed.
C32_StopReachesStoppedState ==
  [][/\ (main_pc # "stopped" /\ main_pc' = "stopped") =>
          (/\ ~running' /\ shutdown_event'
           /\ tcp_socket' = "None"
           /\ ~virtual_device')
     /\ (srv_main_pc # "stopped" /\ srv_main_pc' = "stopped") =>
          (/\ ~srv_running' /\ srv_shutdown_event'
           /\ server_socket' = "None"
           /\ clients' = <<>>
           /\ serial_conn' # "open")]_vars

(***************************************************************************)
(* Claims about errors of the pseudo-device in the relay loops (Spec).     *)
(***************************************************************************)
\* C33: a relay loop whose os.write or os.read on the pseudo-device raised
\* EIO or EBADF ends; it does not enter _handle_connection_loss and the
\* step changes neither tcp_socket nor the reconnect state.
C33_DeviceErrorEndsLoop ==
  [][\A t \in Threads :
       (pc[t] \in {"dev_eio", "dev_ebadf"} /\ pc'[t] # pc[t]) =>
         (/\ pc'[t] = "done"
          /\ tcp_socket' = tcp_socket
          /\ reconnection_in_progress' = reconnection_in_progress
          /\ reconnect_attempts' = reconnect_attempts)]_vars

\* a relay loop has caught EIO from the device while the client runs on an
\* open connection
C33_Witness ==
  \E t \in Threads :
    /\ pc[t] = "dev_eio"
    /\ running
    /\ tcp_socket = "connected"

\* C34: a select that fails in a relay loop does not end the loop: from its
\* select a relay thread goes to its receive or read, or to the head of the
\* loop for its next iteration.
C34_SelectFailureContinues ==
  [][\A t \in Threads :
       /\ (pc[t] = "select" /\ pc'[t] # pc[t]) => pc'[t] \in {"recv", "loop"}
       /\ (pc[t] = "vsel" /\ pc'[t] # pc[t]) => pc'[t] \in {"vread", "loop"}]_vars

C36_HandlerEndLeavesNoPeer ==
  /\ \A c \in Conns :
       /\ handler_pc[c] # "raised"
       /\ handler_pc[c] = "done" => (~InList(c, clients) /\ sock[c] = "closed")
  /\ \A i, j \in 1..Len(clients) : i # j => clients[i] # clients[j]

\* the handler of a peer has passed its own removal while the broadcast loop
\* is about to evict the same peer
C36_Witness ==
  \E c \in Conns :
    /\ handler_pc[c] = "fin_close"
    /\ serial_pc = "remove"
    /\ InList(c, disconnected_clients)

(***************************************************************************)
(* Claims about the server's registry lock (LockSpec).                     *)
(***************************************************************************)
\* C37: every step that changes the registry is taken by the thread that
\* holds clients_lock; the broadcast loop does not hold the lock while it
\* sends, and while it sends its snapshot does not change and is walked one
\* peer at a time, whatever is registered or removed meanwhile.
C37_RegistryUnderLock ==
  /\ [][lk_clients' # lk_clients =>
          (clients_lock # 0 /\ lk_pc'[clients_lock] # lk_pc[clients_lock])]_vars
  /\ [](lk_pc[LkSerial] = "send" => clients_lock # LkSerial)
  /\ [][(lk_pc[LkSerial] = "send" /\ lk_pc'[LkSerial] = "send") =>
          (lk_copy' = lk_copy /\ lk_i' \in {lk_i, lk_i + 1})]_vars

\* the broadcast loop is sending to its snapshot while the registry has
\* changed since the snapshot was taken
C37_Witness ==
  /\ lk_pc[LkSerial] = "send"
  /\ lk_i <= Len(lk_copy)
  /\ lk_clients # lk_copy

(***************************************************************************)
(* Claims about the client's relay loops around stop() and reconnection.   *)
(***************************************************************************)
\* C38: once stop() has returned, tcp_socket is None (so no primary socket
\* is left created or connected), also when a reconnect sequence was in
\* flight when stop() was called.
C38_SocketNoneAfterStop ==
  main_pc = "stopped" => tcp_socket = "None"

\* the relay threads of one direction that have started and not ended
Executing(k) == {t \in Threads : Kind(t) = k /\ pc[t] \notin {"unborn", "done"}}

\* C39: at any time at most one network-to-device loop and at most one
\* device-to-network loop are executing, also after _restart_data_threads
\* has stopped waiting for an old loop that is still alive.
C39_OneLoopPerDirection ==
  \A k \in {Kind(t) : t \in Threads} : Cardinality(Executing(k)) <= 1

\* _restart_data_threads, run by the device-to-network loop, is past its
\* wait for the network-to-device loop, which is still alive
C39_Witness ==
  \E t \in Threads :
    /\ pc[t] \in {"rs_join_virt", "rs_unlock"}
    /\ tcp_thread # t
    /\ IsAlive(tcp_thread)

\* C40: a non-empty chunk that the device-to-network loop has read while the
\* client is running is passed to sendall or leads to loss handling; the
\* loop does not go back to its head with the chunk dropped.
C40_ChunkSentOrLossHandled ==
  [][\A t \in Threads :
       (pc[t] = "vsend" /\ running /\ pc'[t] # pc[t]) =>
          pc'[t] \in {"vsendall", "hcl"}]_vars

====
